---- MODULE Spec2Model ----
(***************************************************************************)
(* Follow the Sun: the time-to-appearance model (hue, saturation, lux,     *)
(* darkness) of src/src/composables and the application state that feeds   *)
(* it (current time, sun schedule, calendar date, drag/override mode).     *)
(*                                                                         *)
(* JavaScript numbers are modelled as exact rationals [n |-> , d |-> ] in  *)
(* lowest terms with d > 0; a number whose double, after the rounded sums, *)
(* products and quotients that made it, is not the double nearest to n/d   *)
(* carries that double as well, and is compared by it.  The decimal        *)
(* literals of the source (0.4, 0.6, 0.001, ...) are the exact decimals,   *)
(* rounded to their doubles where they meet a carried double.  The lux,    *)
(* the darkness and the moon are computed in decimals of sixteen places.   *)
(* A Date is a local day and time of a zone, with the zone's clock         *)
(* changes.  All operators cancel common factors before multiplying so     *)
(* that the values stay inside TLC's 32-bit integers for the inputs        *)
(* enumerated below.                                                       *)
(***************************************************************************)
EXTENDS Integers, Sequences, FiniteSets

VARIABLES
    sunInfo,            \* part_004:243  ref<SunInformation | null>
    currentMinutes,     \* part_004:238  ref(0), minutes since local midnight
    isDragging,         \* part_004:239
    isOverrideMode,     \* part_004:240
    today,              \* useSunCalculations.ts:319,424  new Date(), as far
                        \* as it matters: the local calendar day and the zone
                        \* (calculateLux sets the time of day itself)
    probe               \* state of the specification at hand beyond the five
                        \* above: probed inputs and results, the text-contrast
                        \* accumulator, the ticker's interval handle

vars == <<sunInfo, currentMinutes, isDragging, isOverrideMode, today, probe>>

----------------------------------------------------------------------------
(* Bounds of the model *)

\* The clock and the sundial deliver times on a grid of 60/StepsPerHour minutes.
StepsPerHour == 6
\* The clock shows one of the first ClockDays days of ClockDates.
ClockDays == 2
\* Schedules have twilight stages of 30*k minutes, k = 1..MaxTwilightHalfHours.
MaxTwilightHalfHours == 2
\* luxToDarkness is probed at m * 10^k lux, m = 1..LuxMantissas, k = -3..4.
LuxMantissas == 3
\* angleToMinutes is probed at angles of up to MaxTurns full turns either way.
MaxTurns == 2
\* The lightness values are probed at darkness k/LightnessSteps, from 0 to 100.
LightnessSteps == 2
\* The text contrast is evaluated at most MaxEvaluations times.
MaxEvaluations == 4

----------------------------------------------------------------------------
(* Whole numbers *)

RECURSIVE GCD(_, _)
GCD(a, b) == IF b = 0 THEN a ELSE GCD(b, a % b)

AbsInt(a) == IF a < 0 THEN 0 - a ELSE a

----------------------------------------------------------------------------
(* IEEE 754 doubles, where the rounding of a number decides a result: a *)
(* double is whole + 0.b1 b2 ... in binary, bits = <<b1, b2, ...>> without *)
(* zeros at its end, and negative when neg is set *)

\* how many binary or decimal digits the whole number w has in the base given;
\* 0 for w = 0
RECURSIVE DigitsOf(_, _)
DigitsOf(w, base) == IF w = 0 THEN 0 ELSE 1 + DigitsOf(w \div base, base)

\* how many places of b come before its first 1
LeadingZeros(b) ==
    LET ones == { i \in 1..Len(b) : b[i] = 1 }
    IN  IF ones = {} THEN Len(b)
        ELSE (CHOOSE i \in ones : \A j \in ones : i <= j) - 1

\* the double nearest to whole + 0.b..., ties to the even one, a double having
\* 53 significant binary digits; sticky says that the number has non-zero
\* places past those of b
RoundToDouble(whole, b, sticky) ==
    LET kept == IF whole > 0 THEN 53 - DigitsOf(whole, 2)
                ELSE 53 + LeadingZeros(b)
        odd == IF kept = 0 THEN whole % 2 = 1 ELSE b[kept] = 1
        more == sticky \/ \E i \in (kept + 2)..Len(b) : b[i] = 1
        up == b[kept + 1] = 1 /\ (more \/ odd)
        zeros == { i \in 1..kept : b[i] = 0 }
        last == CHOOSE i \in zeros : \A j \in zeros : j <= i
        Trimmed(c) ==
            LET ones == { i \in 1..Len(c) : c[i] = 1 }
            IN  IF ones = {} THEN <<>>
                ELSE SubSeq(c, 1, CHOOSE i \in ones : \A j \in ones : j <= i)
    IN  IF Len(b) <= kept THEN [neg |-> FALSE, whole |-> whole, bits |-> Trimmed(b)]
        ELSE IF ~up THEN [neg |-> FALSE, whole |-> whole, bits |-> Trimmed(SubSeq(b, 1, kept))]
        ELSE IF zeros = {} THEN [neg |-> FALSE, whole |-> whole + 1, bits |-> <<>>]
        ELSE [neg |-> FALSE, whole |-> whole, bits |-> SubSeq(b, 1, last - 1) \o <<1>>]

\* the double a number x of the program is: the one it carries from the
\* rounded operations that made it, or else the nearest to the rational
ToDouble(x) ==
    LET d == x.d
        n == AbsInt(x.n)
        whole == n \div d
        RECURSIVE BinaryPlaces(_, _)
        \* the first k binary places of r / d for r in 0..d-1, and the
        \* remainder after them
        BinaryPlaces(r, k) ==
            LET p == BinaryPlaces(r, k \div 2)
                q == BinaryPlaces(p.r, k - k \div 2)
            IN  IF k = 0 THEN [bits |-> <<>>, r |-> r]
                ELSE IF k = 1
                THEN (IF r >= d - r THEN [bits |-> <<1>>, r |-> r - (d - r)]
                      ELSE [bits |-> <<0>>, r |-> r + r])
                ELSE [bits |-> p.bits \o q.bits, r |-> q.r]
        places == IF whole > 0 THEN 53 - DigitsOf(whole, 2) + 1
                  ELSE 53 + LeadingZeros(BinaryPlaces(n % d, 31).bits) + 1
        p == BinaryPlaces(n % d, places)
    IN  IF "double" \in DOMAIN x THEN x.double
        ELSE IF n % d = 0 THEN [neg |-> x.n < 0, whole |-> whole, bits |-> <<>>]
        ELSE [RoundToDouble(whole, p.bits, p.r # 0) EXCEPT !.neg = x.n < 0]

\* x + y, rounded to a double
DoubleAdd(x, y) ==
    LET len == IF Len(x.bits) > Len(y.bits) THEN Len(x.bits) ELSE Len(y.bits)
        Place(b, i) == IF i <= Len(b) THEN b[i] ELSE 0
        \* x is below y in magnitude
        Below(a, b) ==
            \/ a.whole < b.whole
            \/ /\ a.whole = b.whole
               /\ \E i \in 1..len : /\ Place(a.bits, i) < Place(b.bits, i)
                                    /\ \A j \in 1..(i - 1) : Place(a.bits, j) = Place(b.bits, j)
        RECURSIVE SumPlaces(_, _, _, _, _)
        \* the places i..k of a + b with carry c into place k, and the carry
        \* out of place i
        SumPlaces(a, b, i, k, c) ==
            LET v == Place(a, i) + Place(b, i) + c
                mid == (i + k) \div 2
                low == SumPlaces(a, b, mid + 1, k, c)
                high == IF low.carry = 0 THEN SumPlaces(a, b, i, mid, 0)
                        ELSE SumPlaces(a, b, i, mid, 1)
            IN  IF i > k THEN [bits |-> <<>>, carry |-> c]
                ELSE IF i = k THEN [bits |-> <<v % 2>>, carry |-> v \div 2]
                ELSE [bits |-> high.bits \o low.bits, carry |-> high.carry]
        RECURSIVE DifferencePlaces(_, _, _, _, _)
        \* the places i..k of a - b with borrow c from place k, and the borrow
        \* from the place before i
        DifferencePlaces(a, b, i, k, c) ==
            LET v == Place(a, i) - Place(b, i) - c
                mid == (i + k) \div 2
                low == DifferencePlaces(a, b, mid + 1, k, c)
                high == IF low.borrow = 0 THEN DifferencePlaces(a, b, i, mid, 0)
                        ELSE DifferencePlaces(a, b, i, mid, 1)
            IN  IF i > k THEN [bits |-> <<>>, borrow |-> c]
                ELSE IF i = k THEN [bits |-> <<v % 2>>, borrow |-> IF v < 0 THEN 1 ELSE 0]
                ELSE [bits |-> high.bits \o low.bits, borrow |-> high.borrow]
        Sum(a, b) ==
            LET s == SumPlaces(a.bits, b.bits, 1, len, 0)
            IN  RoundToDouble(a.whole + b.whole + s.carry, s.bits, FALSE)
        \* a - b for a not below b in magnitude
        Difference(a, b) ==
            LET s == DifferencePlaces(a.bits, b.bits, 1, len, 0)
            IN  RoundToDouble(a.whole - b.whole - s.borrow, s.bits, FALSE)
    IN  IF x.neg = y.neg THEN [Sum(x, y) EXCEPT !.neg = x.neg]
        ELSE IF Below(x, y) THEN [Difference(y, x) EXCEPT !.neg = y.neg]
        ELSE IF Below(y, x) THEN [Difference(x, y) EXCEPT !.neg = x.neg]
        ELSE [neg |-> FALSE, whole |-> 0, bits |-> <<>>]

\* x / n for a double x >= 0 and a whole number n >= 1, rounded to a double
DoubleDiv(x, n) ==
    LET b == x.bits
        RECURSIVE QuotientPlaces(_, _, _)
        \* the binary places i..k of (r + 0.b...) / n for r in 0..n-1, and the
        \* remainder after them
        QuotientPlaces(r, i, k) ==
            LET v == 2 * r + (IF i <= Len(b) THEN b[i] ELSE 0)
                mid == (i + k) \div 2
                p == QuotientPlaces(r, i, mid)
                q == QuotientPlaces(p.r, mid + 1, k)
            IN  IF i > k THEN [bits |-> <<>>, r |-> r]
                ELSE IF i = k THEN [bits |-> <<v \div n>>, r |-> v % n]
                ELSE [bits |-> p.bits \o q.bits, r |-> q.r]
        places == LeadingZeros(b) + DigitsOf(n, 2) + 53 + 1
        q == QuotientPlaces(x.whole % n, 1, places)
        sticky == q.r # 0 \/ \E i \in (places + 1)..Len(b) : b[i] = 1
    IN  RoundToDouble(x.whole \div n, q.bits, sticky)

\* x % n for a double x >= 0 and a whole number n >= 1: the remainder of two
\* doubles is a double
DoubleMod(x, n) == [neg |-> FALSE, whole |-> x.whole % n, bits |-> x.bits]

\* x * n for a double x >= 0 and a whole number n >= 1, rounded to a double
DoubleMul(x, n) ==
    LET b == x.bits
        RECURSIVE ProductPlaces(_, _, _)
        \* the places i..k of 0.b... * n with carry c into place k, and the
        \* carry out of place i
        ProductPlaces(i, k, c) ==
            LET v == n * b[i] + c
                mid == (i + k) \div 2
                low == ProductPlaces(mid + 1, k, c)
                high == ProductPlaces(i, mid, low.carry)
            IN  IF i > k THEN [bits |-> <<>>, carry |-> c]
                ELSE IF i = k THEN [bits |-> <<v % 2>>, carry |-> v \div 2]
                ELSE IF low.carry = 0 /\ \A j \in i..mid : b[j] = 0
                THEN [bits |-> [j \in 1..(mid - i + 1) |-> 0] \o low.bits, carry |-> 0]
                ELSE [bits |-> high.bits \o low.bits, carry |-> high.carry]
        p == ProductPlaces(1, Len(b), 0)
    IN  RoundToDouble(x.whole * n + p.carry, p.bits, FALSE)

\* Math.floor of a double x >= 0
DoubleFloor(x) == x.whole

\* 2^0 .. 2^30, entry k + 1 being 2^k
PowersOfTwo ==
    << 1, 2, 4, 8, 16, 32, 64, 128, 256, 512, 1024, 2048, 4096, 8192, 16384, 32768,
       65536, 131072, 262144, 524288, 1048576, 2097152, 4194304, 8388608, 16777216,
       33554432, 67108864, 134217728, 268435456, 536870912, 1073741824 >>

\* the whole number whose binary digits are s, the highest first
RECURSIVE WholeOf(_)
WholeOf(s) ==
    IF s = <<>> THEN 0 ELSE 2 * WholeOf(SubSeq(s, 1, Len(s) - 1)) + s[Len(s)]

\* the binary digits of the double x, those of its whole part and then its
\* places: x is the whole number of these digits over 2^Len(x.bits)
DigitsOfDouble(x) ==
    LET len == DigitsOf(x.whole, 2)
    IN  [i \in 1..len |-> (x.whole \div PowersOfTwo[len - i + 1]) % 2] \o x.bits

\* -1, 0 or 1 as the double x is below, equal to or above the double y
DoubleCmp(x, y) ==
    LET len == IF Len(x.bits) > Len(y.bits) THEN Len(x.bits) ELSE Len(y.bits)
        Place(b, i) == IF i <= Len(b) THEN b[i] ELSE 0
        differ == { i \in 1..len : Place(x.bits, i) # Place(y.bits, i) }
        first == CHOOSE i \in differ : \A j \in differ : i <= j
        \* the magnitudes compared
        size == IF x.whole < y.whole THEN 0 - 1
                ELSE IF x.whole > y.whole THEN 1
                ELSE IF differ = {} THEN 0
                ELSE IF Place(x.bits, first) < Place(y.bits, first) THEN 0 - 1
                ELSE 1
        IsZero(a) == a.whole = 0 /\ a.bits = <<>>
        xneg == x.neg /\ ~IsZero(x)
        yneg == y.neg /\ ~IsZero(y)
    IN  IF xneg /\ ~yneg THEN 0 - 1
        ELSE IF ~xneg /\ yneg THEN 1
        ELSE IF xneg THEN 0 - size
        ELSE size

\* x * y, rounded to a double: the product of the digits of x and y in limbs
\* of 13 binary digits, five to a factor; a zero is kept without its sign
DoubleTimes(x, y) ==
    LET \* const name = value: the value is computed once and then named
        Bind(value, Body(_)) == CHOOSE result \in { Body(name) : name \in {value} } : TRUE
        places == Len(x.bits) + Len(y.bits)
        \* limb j of s, limb 0 being the lowest 13 digits
        Limb(s, j) ==
            LET top == Len(s) - 13 * j
            IN  WholeOf(SubSeq(s, IF top - 12 < 1 THEN 1 ELSE top - 12, top))
        Limbs(s) == [j \in 0..4 |-> Limb(s, j)]
    IN  Bind(Limbs(DigitsOfDouble(x)), LAMBDA xs :
        Bind(Limbs(DigitsOfDouble(y)), LAMBDA ys :
        \* the sums of the limb products of weight 8192^k
        Bind([k \in 0..8 |->
                 LET Term(i) == IF k - i >= 0 /\ k - i <= 4 THEN xs[i] * ys[k - i] ELSE 0
                 IN  Term(0) + Term(1) + Term(2) + Term(3) + Term(4)], LAMBDA column :
        \* the limbs of the product, the lowest first: each sum with the
        \* carry of the one below
        Bind(LET RECURSIVE Carried(_)
                 Carried(k) == IF k = 0 THEN column[0]
                               ELSE column[k] + Carried(k - 1) \div 8192
             IN  [k \in 1..10 |-> IF k = 10 THEN Carried(8) \div 8192
                                  ELSE Carried(k - 1) % 8192], LAMBDA limbs :
        \* the 130 digits of the product, with the zeros ahead of them that
        \* the places ask for
        Bind(LET product == [q \in 1..130 |->
                                (limbs[((130 - q) \div 13) + 1]
                                     \div PowersOfTwo[((130 - q) % 13) + 1]) % 2]
             IN  IF places > 130 THEN [i \in 1..(places - 130) |-> 0] \o product
                 ELSE product, LAMBDA digits :
        Bind(SubSeq(digits, 1, Len(digits) - places), LAMBDA high :
        Bind(RoundToDouble(WholeOf(SubSeq(high, LeadingZeros(high) + 1, Len(high))),
                           SubSeq(digits, Len(high) + 1, Len(digits)), FALSE), LAMBDA rounded :
            [rounded EXCEPT !.neg = x.neg # y.neg /\ (rounded.whole # 0 \/ rounded.bits # <<>>)])))))))

\* x / y for y other than 0, rounded to a double: the long division of the
\* digits of x by those of y, the remainder kept in two limbs of 27 binary
\* digits; a zero is kept without its sign
DoubleOver(x, y) ==
    LET \* const name = value: the value is computed once and then named
        Bind(value, Body(_)) == CHOOSE result \in { Body(name) : name \in {value} } : TRUE
        Limb(s, j) ==
            LET top == Len(s) - 27 * j
            IN  WholeOf(SubSeq(s, IF top - 26 < 1 THEN 1 ELSE top - 26, top))
        limb == 134217728
        shift == Len(y.bits) - Len(x.bits)
        Significant(s) == SubSeq(s, LeadingZeros(s) + 1, Len(s))
    IN  Bind(Significant(DigitsOfDouble(x)), LAMBDA X :
        IF X = <<>> THEN [neg |-> FALSE, whole |-> 0, bits |-> <<>>]
        ELSE
        Bind(Significant(DigitsOfDouble(y)), LAMBDA Y :
        Bind(Limb(Y, 1), LAMBDA yh :
        Bind(Limb(Y, 0), LAMBDA yl :
        \* the digits the quotient is carried beyond those of x
        Bind(LET needed == 56 + Len(Y) - Len(X)
             IN  IF needed > shift THEN (IF needed > 0 THEN needed ELSE 0)
                 ELSE (IF shift > 0 THEN shift ELSE 0), LAMBDA more :
        Bind(LET RECURSIVE QuotientDigits(_, _, _)
                 \* the digits i..k of the quotient, r being the remainder
                 \* before them, and the remainder after them
                 QuotientDigits(r, i, k) ==
                     LET low == 2 * r.l + (IF i <= Len(X) THEN X[i] ELSE 0)
                         h == 2 * r.h + low \div limb
                         l == low % limb
                         fits == h > yh \/ (h = yh /\ l >= yl)
                         mid == (i + k) \div 2
                         p == QuotientDigits(r, i, mid)
                         q == QuotientDigits(p.r, mid + 1, k)
                     IN  IF i > k THEN [bits |-> <<>>, r |-> r]
                         ELSE IF i = k
                         THEN (IF ~fits THEN [bits |-> <<0>>, r |-> [h |-> h, l |-> l]]
                               ELSE IF l >= yl
                               THEN [bits |-> <<1>>, r |-> [h |-> h - yh, l |-> l - yl]]
                               ELSE [bits |-> <<1>>, r |-> [h |-> h - yh - 1, l |-> l + limb - yl]])
                         ELSE [bits |-> p.bits \o q.bits, r |-> q.r]
             IN  QuotientDigits([h |-> 0, l |-> 0], 1, Len(X) + more), LAMBDA q :
        \* the digits of the quotient, with the zeros ahead of them that the
        \* places ask for
        Bind(IF more - shift > Len(q.bits)
             THEN [i \in 1..(more - shift - Len(q.bits)) |-> 0] \o q.bits
             ELSE q.bits, LAMBDA digits :
        Bind(SubSeq(digits, 1, Len(digits) - (more - shift)), LAMBDA high :
        Bind(RoundToDouble(WholeOf(Significant(high)),
                           SubSeq(digits, Len(high) + 1, Len(digits)),
                           q.r.h # 0 \/ q.r.l # 0), LAMBDA rounded :
            [rounded EXCEPT !.neg = x.neg # y.neg /\ (rounded.whole # 0 \/ rounded.bits # <<>>)])))))))))

----------------------------------------------------------------------------
(* Exact rational arithmetic standing for JavaScript number arithmetic *)

\* n/d in lowest terms with a positive denominator
Frac(n, d) ==
    LET s == IF d < 0 THEN 0 - 1 ELSE 1
        g == GCD(AbsInt(n), AbsInt(d))
    IN  [n |-> (s * n) \div g, d |-> (s * d) \div g]

R(i) == [n |-> i, d |-> 1]

\* The number NaN: what 0 / 0 and every operation on a NaN yield
NaN == [n |-> 0, d |-> 0]

IsNaN(x) == x.d = 0

\* the number of exact value x that is the double given: it carries the double
\* where the double is not the one nearest to x
Number(x, double) ==
    IF double = ToDouble(x) THEN x ELSE [n |-> x.n, d |-> x.d, double |-> double]

Neg(x) ==
    IF "double" \in DOMAIN x
    THEN [n |-> 0 - x.n, d |-> x.d, double |-> [x.double EXCEPT !.neg = ~@]]
    ELSE [n |-> 0 - x.n, d |-> x.d]

\* x is a double as it stands, of so few binary places that its sum with
\* another such number is one as well
IsShort(x) == "double" \notin DOMAIN x /\ x.d \in {1, 2, 4, 8, 16, 32, 64, 128, 256, 512, 1024}

\* x + y without any rounding
Plus(x, y) ==
    IF IsNaN(x) \/ IsNaN(y) THEN NaN
    ELSE LET g == GCD(x.d, y.d)
         IN  Frac(x.n * (y.d \div g) + y.n * (x.d \div g), (x.d \div g) * y.d)

\* x + y: the sum of the doubles, rounded
Add(x, y) ==
    IF IsNaN(x) \/ IsNaN(y) THEN NaN
    ELSE IF IsShort(x) /\ IsShort(y) THEN Plus(x, y)
    ELSE Number(Plus(x, y), DoubleAdd(ToDouble(x), ToDouble(y)))

\* x - y
Sub(x, y) == Add(x, Neg(y))

\* x * y without any rounding
Product(x, y) ==
    IF IsNaN(x) \/ IsNaN(y) THEN NaN
    ELSE LET g1 == GCD(AbsInt(x.n), y.d)
             g2 == GCD(AbsInt(y.n), x.d)
         IN  [n |-> (x.n \div g1) * (y.n \div g2), d |-> (x.d \div g2) * (y.d \div g1)]

\* x / y without any rounding; 0 / 0 is NaN. A non-zero x over 0 (an
\* infinity) is not represented: no division of the model has a zero divisor
\* under a non-zero dividend.
Quotient(x, y) ==
    IF IsNaN(x) \/ IsNaN(y) \/ (x.n = 0 /\ y.n = 0) THEN NaN
    ELSE Product(x, IF y.n < 0 THEN [n |-> 0 - y.d, d |-> 0 - y.n]
                             ELSE [n |-> y.d, d |-> y.n])

\* x * y: the product of the doubles, rounded (of two short numbers it is
\* exact)
Mul(x, y) ==
    IF IsNaN(x) \/ IsNaN(y) THEN NaN
    ELSE IF IsShort(x) /\ IsShort(y) THEN Product(x, y)
    ELSE Number(Product(x, y), DoubleTimes(ToDouble(x), ToDouble(y)))

\* x / y: the quotient of the doubles, rounded (of two short numbers it is
\* the double nearest to the exact quotient)
Div(x, y) ==
    IF IsNaN(x) \/ IsNaN(y) \/ (x.n = 0 /\ y.n = 0) THEN NaN
    ELSE IF y.n = 0 \/ (IsShort(x) /\ IsShort(y)) THEN Quotient(x, y)
    ELSE Number(Quotient(x, y), DoubleOver(ToDouble(x), ToDouble(y)))

\* -1, 0 or 1 as the exact value of x is below, equal to or above that of y,
\* neither a NaN; compares the continued fractions, so no product is formed
RECURSIVE Compare(_, _)
Compare(x, y) ==
    LET qx == x.n \div x.d
        qy == y.n \div y.d
        rx == x.n % x.d
        ry == y.n % y.d
    IN  IF qx < qy THEN 0 - 1
        ELSE IF qx > qy THEN 1
        ELSE IF rx = 0 /\ ry = 0 THEN 0
        ELSE IF rx = 0 THEN 0 - 1
        ELSE IF ry = 0 THEN 1
        ELSE 0 - Compare([n |-> x.d, d |-> rx], [n |-> y.d, d |-> ry])

\* -1, 0 or 1 as the double of x is below, equal to or above the double of
\* y, neither a NaN: where a number carries its double the doubles are
\* compared, and the exact values where both doubles are the nearest ones
Cmp(x, y) ==
    IF "double" \in DOMAIN x \/ "double" \in DOMAIN y
    THEN DoubleCmp(ToDouble(x), ToDouble(y))
    ELSE Compare(x, y)

\* every comparison with a NaN is false
Lt(x, y) == ~IsNaN(x) /\ ~IsNaN(y) /\ Cmp(x, y) < 0
Leq(x, y) == ~IsNaN(x) /\ ~IsNaN(y) /\ Cmp(x, y) <= 0
Gt(x, y) == ~IsNaN(x) /\ ~IsNaN(y) /\ Cmp(x, y) > 0
Geq(x, y) == ~IsNaN(x) /\ ~IsNaN(y) /\ Cmp(x, y) >= 0

MathMin(x, y) == IF IsNaN(x) \/ IsNaN(y) THEN NaN ELSE IF Leq(x, y) THEN x ELSE y
MathMax(x, y) == IF IsNaN(x) \/ IsNaN(y) THEN NaN ELSE IF Geq(x, y) THEN x ELSE y

\* x is below zero, by the double it carries where it carries one
IsNegative(x) ==
    IF "double" \in DOMAIN x
    THEN x.double.neg /\ (x.double.whole # 0 \/ x.double.bits # <<>>)
    ELSE x.n < 0

MathAbs(x) == IF IsNegative(x) THEN Neg(x) ELSE x

\* Math.floor, of the double a number carries where it carries one
MathFloor(x) ==
    IF "double" \notin DOMAIN x THEN x.n \div x.d
    ELSE IF ~IsNegative(x) THEN x.double.whole
    ELSE IF x.double.bits = <<>> THEN 0 - x.double.whole
    ELSE 0 - x.double.whole - 1

\* the JavaScript remainder x % m for a whole number m > 0: x less the
\* multiple of m that the quotient of the doubles, cut to a whole number,
\* counts; the sign follows the dividend and no rounding takes place
Mod(x, m) ==
    IF IsNaN(x) THEN NaN
    ELSE LET q == Quotient(x, m)
             whole == IF "double" \in DOMAIN x THEN x.double.whole \div m.n
                      ELSE MathFloor(IF q.n < 0 THEN Neg(q) ELSE q)
             t == IF IsNegative(x) THEN 0 - whole ELSE whole
         IN  IF t = 0 THEN x ELSE Sub(x, Product(m, R(t)))

\* Linear interpolation helper
lerp(start, end, t) == Add(start, Mul(Sub(end, start), t))

\* Smooth step function for easing
smoothStep(t) == Mul(Mul(t, t), Sub(R(3), Mul(R(2), t)))

----------------------------------------------------------------------------
(* Sixteen-place decimal arithmetic standing for JavaScript number arithmetic *)
(* where the value is irrational: Math.log10 and what luxToDarkness makes of it *)

\* a decimal is sign * (digits[1] + digits[2]/10^4 + ... + digits[5]/10^16),
\* digits[1] a natural number and the others in 0..9999; zero has sign 1
Dec(sign, digits) == [sign |-> sign, digits |-> digits]

DecOfInt(i) == Dec(IF i < 0 THEN 0 - 1 ELSE 1, <<AbsInt(i), 0, 0, 0, 0>>)

\* The number NaN as a decimal
DecNaN == Dec(0, <<0, 0, 0, 0, 0>>)

DecIsNaN(x) == x.sign = 0

\* x < y; every comparison with a NaN is false
DecLt(x, y) ==
    LET Below(a, b) == \E i \in 1..5 : a[i] < b[i] /\ \A j \in 1..(i - 1) : a[j] = b[j]
    IN  /\ ~DecIsNaN(x)
        /\ ~DecIsNaN(y)
        /\ IF x.sign # y.sign THEN x.sign < y.sign
           ELSE IF x.sign > 0 THEN Below(x.digits, y.digits)
           ELSE Below(y.digits, x.digits)

\* x + y
DecAdd(x, y) ==
    LET Sum(a, b) ==
            LET s5 == a[5] + b[5]
                s4 == a[4] + b[4] + s5 \div 10000
                s3 == a[3] + b[3] + s4 \div 10000
                s2 == a[2] + b[2] + s3 \div 10000
                s1 == a[1] + b[1] + s2 \div 10000
            IN  <<s1, s2 % 10000, s3 % 10000, s4 % 10000, s5 % 10000>>
        Borrow(d) == IF d < 0 THEN 1 ELSE 0
        Place(d) == IF d < 0 THEN d + 10000 ELSE d
        \* a - b for a >= b
        Difference(a, b) ==
            LET d5 == a[5] - b[5]
                d4 == a[4] - b[4] - Borrow(d5)
                d3 == a[3] - b[3] - Borrow(d4)
                d2 == a[2] - b[2] - Borrow(d3)
                d1 == a[1] - b[1] - Borrow(d2)
            IN  <<d1, Place(d2), Place(d3), Place(d4), Place(d5)>>
    IN  IF DecIsNaN(x) \/ DecIsNaN(y) THEN DecNaN
        ELSE IF x.sign = y.sign THEN Dec(x.sign, Sum(x.digits, y.digits))
        ELSE IF x.digits = y.digits THEN DecOfInt(0)
        ELSE IF DecLt(Dec(1, x.digits), Dec(1, y.digits))
        THEN Dec(y.sign, Difference(y.digits, x.digits))
        ELSE Dec(x.sign, Difference(x.digits, y.digits))

\* x - y
DecSub(x, y) == DecAdd(x, IF DecIsNaN(y) THEN DecNaN ELSE Dec(0 - y.sign, y.digits))

\* x * y, the places past the sixteenth dropped
DecMul(x, y) ==
    LET a == x.digits
        b == y.digits
        \* the coefficient of 10^(-4k) in the product
        Column(k) ==
            LET term(i) == IF k + 2 - i \in 1..5 THEN a[i] * b[k + 2 - i] ELSE 0
            IN  term(1) + term(2) + term(3) + term(4) + term(5)
        v8 == Column(8)
        v7 == Column(7) + v8 \div 10000
        v6 == Column(6) + v7 \div 10000
        v5 == Column(5) + v6 \div 10000
        v4 == Column(4) + v5 \div 10000
        v3 == Column(3) + v4 \div 10000
        v2 == Column(2) + v3 \div 10000
        v1 == Column(1) + v2 \div 10000
        v0 == Column(0) + v1 \div 10000
        product == <<v0, v1 % 10000, v2 % 10000, v3 % 10000, v4 % 10000>>
    IN  IF DecIsNaN(x) \/ DecIsNaN(y) THEN DecNaN
        ELSE Dec(IF product = <<0, 0, 0, 0, 0>> THEN 1 ELSE x.sign * y.sign, product)

\* how many times the decimal y >= 1 goes into the decimal x >= 0, and what
\* is left of x
DecQuotient(x, y) ==
    LET RECURSIVE Steps(_, _)
        \* the same for q * y + r, r no larger than x
        Steps(q, r) ==
            IF DecLt(r, y) THEN [q |-> q, r |-> r]
            ELSE LET k == r.digits[1] \div (y.digits[1] + 1)
                 IN  IF k < 1 THEN Steps(q + 1, DecSub(r, y))
                     ELSE Steps(q + k, DecSub(r, DecMul(y, DecOfInt(k))))
    IN  Steps(0, x)

\* x / y, the places past the sixteenth dropped, for y a whole number other
\* than 0, up to 200000 either way
DecDiv(x, y) ==
    LET a == x.digits
        n == y.digits[1]
        v1 == a[1]
        v2 == (v1 % n) * 10000 + a[2]
        v3 == (v2 % n) * 10000 + a[3]
        v4 == (v3 % n) * 10000 + a[4]
        v5 == (v4 % n) * 10000 + a[5]
        quotient == <<v1 \div n, v2 \div n, v3 \div n, v4 \div n, v5 \div n>>
    IN  IF DecIsNaN(x) \/ DecIsNaN(y) THEN DecNaN
        ELSE Dec(IF quotient = <<0, 0, 0, 0, 0>> THEN 1 ELSE x.sign * y.sign, quotient)

\* x / y, the places past the sixteenth dropped, for a decimal y of 1 or more
\* in magnitude: long division, the next four places being those of the
\* remainder
DecOver(x, y) ==
    LET Shift(r) == Dec(1, <<r.digits[1] * 10000 + r.digits[2], r.digits[3], r.digits[4], r.digits[5], 0>>)
        RECURSIVE Long(_, _)
        \* the first k limbs of r / y
        Long(r, k) ==
            IF k = 0 THEN <<>>
            ELSE CHOOSE limbs \in { <<s.q>> \o Long(Shift(s.r), k - 1) :
                                       s \in {DecQuotient(r, Dec(1, y.digits))} } : TRUE
    IN  IF DecIsNaN(x) \/ DecIsNaN(y) THEN DecNaN
        ELSE CHOOSE result \in { Dec(IF quotient = <<0, 0, 0, 0, 0>> THEN 1 ELSE x.sign * y.sign, quotient) :
                                    quotient \in {Long(Dec(1, x.digits), 5)} } : TRUE

\* the JavaScript remainder x % y for a decimal y >= 1: the sign follows the
\* dividend
DecMod(x, y) ==
    LET r == DecQuotient(Dec(1, x.digits), y).r.digits
    IN  IF DecIsNaN(x) \/ DecIsNaN(y) THEN DecNaN
        ELSE Dec(IF r = <<0, 0, 0, 0, 0>> THEN 1 ELSE x.sign, r)

DecMin(x, y) == IF DecIsNaN(x) \/ DecIsNaN(y) THEN DecNaN ELSE IF DecLt(y, x) THEN y ELSE x
DecMax(x, y) == IF DecIsNaN(x) \/ DecIsNaN(y) THEN DecNaN ELSE IF DecLt(x, y) THEN y ELSE x

\* the next k decimal places of r / d as a number, and the remainder after
\* them, for r in 0..d-1; no number above d is formed on the way
RECURSIVE PlacesOver(_, _, _)
PlacesOver(r, d, k) ==
    LET SumOver(a, b) ==
            IF a >= d - b THEN [q |-> 1, r |-> a - (d - b)] ELSE [q |-> 0, r |-> a + b]
        p == PlacesOver(r, d, k - 1)
        r2 == SumOver(p.r, p.r)
        r4 == SumOver(r2.r, r2.r)
        r5 == SumOver(r4.r, p.r)
        r10 == SumOver(r5.r, r5.r)
    IN  IF k = 0 THEN [q |-> 0, r |-> r]
        ELSE [q |-> 10 * p.q + 2 * (2 * r2.q + r4.q + r5.q) + r10.q, r |-> r10.r]

\* the decimal of a double, the places past the sixteenth dropped: its
\* binary places times 10000 give four decimal places and the binary places
\* after them, four times over
DecOfDouble(x) ==
    LET Bind(value, Body(_)) == CHOOSE result \in { Body(name) : name \in {value} } : TRUE
        RECURSIVE ProductPlaces(_, _, _, _)
        \* the places i..k of 0.b... * 10000 with carry c into place k, and
        \* the carry out of place i
        ProductPlaces(b, i, k, c) ==
            LET v == 10000 * b[i] + c
                mid == (i + k) \div 2
                low == ProductPlaces(b, mid + 1, k, c)
                high == ProductPlaces(b, i, mid, low.carry)
            IN  IF i > k THEN [bits |-> <<>>, carry |-> c]
                ELSE IF i = k THEN [bits |-> <<v % 2>>, carry |-> v \div 2]
                ELSE IF low.carry = 0 /\ \A j \in i..mid : b[j] = 0
                THEN [bits |-> [j \in 1..(mid - i + 1) |-> 0] \o low.bits, carry |-> 0]
                ELSE [bits |-> high.bits \o low.bits, carry |-> high.carry]
        Next4(b) == ProductPlaces(b, 1, Len(b), 0)
    IN  Bind(Next4(x.bits), LAMBDA p1 :
        Bind(Next4(p1.bits), LAMBDA p2 :
        Bind(Next4(p2.bits), LAMBDA p3 :
        Bind(Next4(p3.bits), LAMBDA p4 :
        Bind(<<x.whole, p1.carry, p2.carry, p3.carry, p4.carry>>, LAMBDA digits :
            Dec(IF x.neg /\ digits # <<0, 0, 0, 0, 0>> THEN 0 - 1 ELSE 1, digits))))))

\* the decimal of a number, the places past the sixteenth dropped: of the
\* double it carries where it carries one, of the rational otherwise
ToDecimal(x) ==
    LET \* const name = value: the value is computed once and then named
        Bind(value, Body(_)) == CHOOSE result \in { Body(name) : name \in {value} } : TRUE
    IN  IF IsNaN(x) THEN DecNaN
        ELSE IF "double" \in DOMAIN x THEN DecOfDouble(x.double)
        ELSE Bind(PlacesOver(AbsInt(x.n) % x.d, x.d, 4), LAMBDA p1 :
             Bind(PlacesOver(p1.r, x.d, 4), LAMBDA p2 :
             Bind(PlacesOver(p2.r, x.d, 4), LAMBDA p3 :
             Bind(PlacesOver(p3.r, x.d, 4), LAMBDA p4 :
             Bind(<<AbsInt(x.n) \div x.d, p1.q, p2.q, p3.q, p4.q>>, LAMBDA digits :
                 Dec(IF x.n < 0 /\ digits # <<0, 0, 0, 0, 0>> THEN 0 - 1 ELSE 1, digits))))))

\* Math.round: the nearest integer, halves rounded up
DecRound(x) ==
    LET y == DecAdd(x, ToDecimal(Frac(1, 2)))
    IN  IF y.sign < 0 /\ \E i \in 2..5 : y.digits[i] # 0
        THEN 0 - y.digits[1] - 1
        ELSE y.sign * y.digits[1]

----------------------------------------------------------------------------
(* Time *)

\* A timestamp of the provider, as the local hours, minutes and seconds that
\* new Date(timeStr) yields.
Timestamp(h, m, s) == [hours |-> h, minutes |-> m, seconds |-> s]

\* new Date(timeStr) of an unparsable string: an Invalid Date, whose time
\* value is NaN, and so are its getHours(), getMinutes() and getSeconds()
InvalidDate == [time |-> NaN]

\* Get time in minutes from hours, minutes, seconds
getTimeMinutes(hours, minutes, seconds) ==
    Add(R(hours * 60 + minutes), Frac(seconds, 60))

\* Convert ISO 8601 timestamp to minutes since midnight (local time)
\* (of an Invalid Date: NaN * 60 + NaN + NaN / 60, a NaN)
timeToMinutes(timeStr) ==
    IF "time" \in DOMAIN timeStr THEN NaN
    ELSE Add(R(timeStr.hours * 60 + timeStr.minutes), Frac(timeStr.seconds, 60))

dayLength == R(24 * 60)

----------------------------------------------------------------------------
(* Hue (useColorCalculations.ts, calculateHue) *)

\* Night: 240 -> 245 over the first 40%, 245 until 60%, then 245 -> 235
hueNight(progress) ==
    IF Lt(progress, Frac(2, 5))
    THEN Add(R(240), Mul(Div(progress, Frac(2, 5)), R(5)))
    ELSE IF Lt(progress, Frac(3, 5))
         THEN R(245)
         ELSE Sub(R(245), Mul(Div(Sub(progress, Frac(3, 5)), Frac(2, 5)), R(10)))

\* Mutant of hueCivilDawn: the forward path without the modulo
hueCivilDawn_NoModulo(progress) ==
    IF Lt(progress, Frac(2, 5))
    THEN Sub(R(240), Mul(Div(progress, Frac(2, 5)), R(20)))
    ELSE Add(R(220), Mul(R(200), Div(Sub(progress, Frac(2, 5)), Frac(3, 5))))

\* Civil twilight before sunrise: 240 -> 220, then forwards 220 -> 60 through 360
hueCivilDawn(progress) ==
    IF Lt(progress, Frac(2, 5))
    THEN Sub(R(240), Mul(Div(progress, Frac(2, 5)), R(20)))
    ELSE Mod(Add(R(220), Mul(R(200), Div(Sub(progress, Frac(2, 5)), Frac(3, 5)))), R(360))

\* Sunrise to solar noon: 0 -> 30 -> 60, then 60
hueMorning(progress) ==
    IF Lt(progress, Frac(3, 10))
    THEN Add(R(0), Mul(Div(progress, Frac(3, 10)), R(30)))
    ELSE IF Lt(progress, Frac(7, 10))
         THEN Add(R(30), Mul(Div(Sub(progress, Frac(3, 10)), Frac(2, 5)), R(30)))
         ELSE R(60)

\* Solar noon to sunset: 60, then 60 -> 0
hueAfternoon(progress) ==
    IF Lt(progress, Frac(1, 2))
    THEN R(60)
    ELSE Sub(R(60), Mul(Div(Sub(progress, Frac(1, 2)), Frac(1, 2)), R(60)))

\* Mutant of hueDusk: red to blue the short way round, 0 -> 240 through green
hueDusk_Forwards(progress) ==
    IF Lt(progress, Frac(3, 10))
    THEN Add(R(0), Mul(Div(progress, Frac(3, 10)), R(20)))
    ELSE IF Lt(progress, Frac(3, 5))
         THEN Sub(R(20), Mul(Div(Sub(progress, Frac(3, 10)), Frac(3, 10)), R(20)))
         ELSE Mod(Mul(Div(Sub(progress, Frac(3, 5)), Frac(2, 5)), R(240)), R(360))

\* Sunset to civil twilight end: 0 -> 20 -> 0, then backwards 360 -> 240
hueDusk(progress) ==
    IF Lt(progress, Frac(3, 10))
    THEN Add(R(0), Mul(Div(progress, Frac(3, 10)), R(20)))
    ELSE IF Lt(progress, Frac(3, 5))
         THEN Sub(R(20), Mul(Div(Sub(progress, Frac(3, 10)), Frac(3, 10)), R(20)))
         ELSE Mod(Sub(R(360), Mul(Div(Sub(progress, Frac(3, 5)), Frac(2, 5)), R(120))), R(360))

\* Mutant of minutesIntoNight: after midnight the evening part is forgotten
minutesIntoNight_NoWrap(minutes, civilTwilightBegin, civilTwilightEnd) ==
    IF Gt(minutes, civilTwilightEnd)
    THEN Sub(minutes, civilTwilightEnd)
    ELSE minutes

\* minutes since civil twilight end, counted across midnight
minutesIntoNight(minutes, civilTwilightBegin, civilTwilightEnd) ==
    IF Gt(minutes, civilTwilightEnd)
    THEN Sub(minutes, civilTwilightEnd)
    ELSE Add(Sub(dayLength, civilTwilightEnd), minutes)

calculateHue(minutes, sunrise, sunset, solarNoon, civilTwilightBegin, civilTwilightEnd) ==
    IF Lt(minutes, civilTwilightBegin) \/ Gt(minutes, civilTwilightEnd)
    THEN hueNight(Div(minutesIntoNight(minutes, civilTwilightBegin, civilTwilightEnd),
                      Sub(Add(civilTwilightBegin, dayLength), civilTwilightEnd)))
    ELSE IF Geq(minutes, civilTwilightBegin) /\ Lt(minutes, sunrise)
    THEN hueCivilDawn(Div(Sub(minutes, civilTwilightBegin), Sub(sunrise, civilTwilightBegin)))
    ELSE IF Geq(minutes, sunrise) /\ Lt(minutes, solarNoon)
    THEN hueMorning(Div(Sub(minutes, sunrise), Sub(solarNoon, sunrise)))
    ELSE IF Geq(minutes, solarNoon) /\ Lt(minutes, sunset)
    THEN hueAfternoon(Div(Sub(minutes, solarNoon), Sub(sunset, solarNoon)))
    ELSE IF Geq(minutes, sunset) /\ Leq(minutes, civilTwilightEnd)
    THEN hueDusk(Div(Sub(minutes, sunset), Sub(civilTwilightEnd, sunset)))
    ELSE R(240)

----------------------------------------------------------------------------
(* Saturation (useColorCalculations.ts, calculateSaturation) *)

\* Mutant of calculateSaturation: at night the darkness is taken as a
\* fraction, not as a percentage
calculateSaturation_DarkFraction(minutes, sunrise, sunset, solarNoon, civilTwilightBegin, civilTwilightEnd, darkValue) ==
    LET isDay == Geq(minutes, sunrise) /\ Lt(minutes, sunset)
        isTwilight == \/ (Geq(minutes, civilTwilightBegin) /\ Lt(minutes, sunrise))
                      \/ (Geq(minutes, sunset) /\ Leq(minutes, civilTwilightEnd))
    IN  IF isDay
        THEN LET distanceFromNoon == MathAbs(Sub(minutes, solarNoon))
                 maxDistance == MathMax(Sub(solarNoon, sunrise), Sub(sunset, solarNoon))
                 normalizedDistance == MathMin(R(1), Div(distanceFromNoon, maxDistance))
             IN  Add(R(8), Mul(normalizedDistance, R(7)))
        ELSE IF isTwilight
        THEN LET isMorningTwilight == Lt(minutes, sunrise)
                 twilightStart == IF isMorningTwilight THEN civilTwilightBegin ELSE sunset
                 twilightEnd == IF isMorningTwilight THEN sunrise ELSE civilTwilightEnd
                 progress == Div(Sub(minutes, twilightStart), Sub(twilightEnd, twilightStart))
             IN  Add(R(12), Mul(progress, R(3)))
        ELSE Add(R(10), Mul(darkValue, R(2)))

calculateSaturation(minutes, sunrise, sunset, solarNoon, civilTwilightBegin, civilTwilightEnd, darkValue) ==
    LET isDay == Geq(minutes, sunrise) /\ Lt(minutes, sunset)
        isTwilight == \/ (Geq(minutes, civilTwilightBegin) /\ Lt(minutes, sunrise))
                      \/ (Geq(minutes, sunset) /\ Leq(minutes, civilTwilightEnd))
    IN  IF isDay
        THEN LET distanceFromNoon == MathAbs(Sub(minutes, solarNoon))
                 maxDistance == MathMax(Sub(solarNoon, sunrise), Sub(sunset, solarNoon))
                 normalizedDistance == MathMin(R(1), Div(distanceFromNoon, maxDistance))
             IN  Add(R(8), Mul(normalizedDistance, R(7)))
        ELSE IF isTwilight
        THEN LET isMorningTwilight == Lt(minutes, sunrise)
                 twilightStart == IF isMorningTwilight THEN civilTwilightBegin ELSE sunset
                 twilightEnd == IF isMorningTwilight THEN sunrise ELSE civilTwilightEnd
                 progress == Div(Sub(minutes, twilightStart), Sub(twilightEnd, twilightStart))
             IN  Add(R(12), Mul(progress, R(3)))
        ELSE Add(R(10), Mul(Div(darkValue, R(100)), R(2)))

----------------------------------------------------------------------------
(* Dates: a Date of a zone, with the clock changes of the zone *)

\* the day number of a calendar date (month 1..12)
DaysFromCivil(year, month, day) ==
    LET y == IF month <= 2 THEN year - 1 ELSE year
        era == y \div 400
        yoe == y - era * 400
        doy == (153 * (IF month > 2 THEN month - 3 ELSE month + 9) + 2) \div 5 + day - 1
        doe == yoe * 365 + yoe \div 4 - yoe \div 100 + doy
    IN  era * 146097 + doe - 719468

\* getFullYear(), getMonth() + 1 and getDate() of a Date
CivilFromDays(days) ==
    LET z == days + 719468
        era == z \div 146097
        doe == z - era * 146097
        yoe == (doe - doe \div 1460 + doe \div 36524 - doe \div 146096) \div 365
        doy == doe - (365 * yoe + yoe \div 4 - yoe \div 100)
        mp == (5 * doy + 2) \div 153
        month == IF mp < 10 THEN mp + 3 ELSE mp - 9
    IN  [year  |-> yoe + era * 400 + (IF month <= 2 THEN 1 ELSE 0),
         month |-> month,
         day   |-> doy - (153 * mp + 2) \div 5 + 1]

\* A zone: the minutes its standard time is ahead of UTC, and whether it
\* keeps summer time. FixedZone has no clock changes; Zurich is the zone of
\* the coordinates the app asks the provider about (App.vue 94-95).
FixedZone(offset) == [standard |-> offset, summer |-> FALSE]

Zurich == [standard |-> 60, summer |-> TRUE]

\* Summer time by the European rule: from 01:00 UTC of the last Sunday of
\* March to 01:00 UTC of the last Sunday of October (the day number of a
\* Sunday is 3 modulo 7). The instant is given as a UTC day and second, and
\* compared by its hour.
InSummerTime(days, secs) ==
    LET year == CivilFromDays(days).year
        LastSunday(month) == 7 * ((DaysFromCivil(year, month, 31) + 4) \div 7) - 4
        hour == days * 24 + secs \div 3600
    IN  hour >= LastSunday(3) * 24 + 1 /\ hour < LastSunday(10) * 24 + 1

\* getTimezoneOffset() negated: the minutes the zone is ahead of UTC at an
\* instant given as a UTC day and second
zoneOffset(zone, days, secs) ==
    IF zone.summer /\ InSummerTime(days, secs) THEN zone.standard + 60 ELSE zone.standard

\* new Date(time) of an instant given as a UTC day, second and millisecond:
\* the local day (days since 1970-01-01), the second of the local day, the
\* millisecond, the minutes the zone is then ahead of UTC, and the zone
DateAt(zone, days, secs, ms) ==
    LET Local(offset) ==
            [days |-> days + (secs + offset * 60) \div 86400,
             secs |-> (secs + offset * 60) % 86400,
             ms |-> ms, offset |-> offset, zone |-> zone]
    IN  Local(zoneOffset(zone, days, secs))

\* The Date that local fields name (setHours and its like): the instant whose
\* local time they are. A local time the clocks skip in spring is read with
\* the offset before the change; one that comes twice in autumn is the first.
DateOf(days, secs, ms, zone) ==
    LET Instant(offset) == [days |-> days + (secs - offset * 60) \div 86400,
                            secs |-> (secs - offset * 60) % 86400]
        Of(instant) == DateAt(zone, instant.days, instant.secs, ms)
        summer == Instant(zone.standard + 60)
    IN  Of(IF zone.summer /\ InSummerTime(summer.days, summer.secs)
           THEN summer ELSE Instant(zone.standard))

\* new Date(date.getTime() + a span of whole days, seconds and milliseconds)
DatePlus(date, days, secs, ms) ==
    LET m == date.ms + ms
        t == date.secs - date.offset * 60 + secs + m \div 1000
    IN  DateAt(date.zone, date.days + days + t \div 86400, t % 86400, m % 1000)

\* calculateLux's dateWithTime: the reference date with its hours set to
\* Math.floor(minutes / 60), its minutes to minutes % 60 (a Date takes the
\* whole part) and its seconds to 0, read as local time of the date's zone;
\* hours and minutes outside the day move the date, and a NaN makes it an
\* Invalid Date
dateWithTime(date, minutes) ==
    LET hours == MathFloor(Div(minutes, R(60)))
        rest == Mod(minutes, R(60))
        mins == IF rest.n < 0 THEN 0 - ((0 - rest.n) \div rest.d) ELSE rest.n \div rest.d
    IN  IF IsNaN(minutes) THEN InvalidDate
        ELSE LET local == hours * 3600 + mins * 60
             IN  DateOf(date.days + local \div 86400, local % 86400, date.ms, date.zone)

----------------------------------------------------------------------------
(* Moon phase, illumination and lux (unnamed/part_000), in decimals *)

\* Calculate the Julian Day Number for a given date. The hour is getHours() +
\* getMinutes() / 60 + getSeconds() / 3600: the milliseconds of the date do
\* not enter. A double between 2^21 and 2^22 is a multiple of 2^-31, so the
\* sum is the multiple of 2^-31 day nearest to the time of day: ticks of them
\* past the whole day.
julianDay(date) ==
    LET civil == CivilFromDays(date.days)
        year == IF civil.month <= 2 THEN civil.year - 1 ELSE civil.year
        month == IF civil.month <= 2 THEN civil.month + 12 ELSE civil.month
        a == year \div 100
        b == 2 - a + a \div 4
        \* ... + day + b - 1524.5 + hour / 24 is noon + 1/2 + hour / 24
        noon == (1461 * (year + 4716)) \div 4 + (306001 * (month + 1)) \div 10000
                + civil.day + b - 1525
        past == (date.secs + 43200) % 86400
        \* past / 86400 * 2^31 = past * 2^24 / 675, to the nearest whole number
        part == (past % 675) * 4096
        ticks == (past \div 675) * 16777216 + (part \div 675) * 4096
                 + (2 * (part % 675) * 4096 + 675) \div 1350
        \* ticks / 2^31 = (ticks \div 2^16) / 2^15 + (ticks % 2^16) / 2^31
        fraction == DecAdd(ToDecimal(Frac(ticks \div 65536, 32768)),
                           DecDiv(ToDecimal(Frac(ticks % 65536, 65536)), DecOfInt(32768)))
    IN  IF "time" \in DOMAIN date THEN DecNaN
        ELSE DecAdd(DecOfInt(noon + (date.secs + 43200) \div 86400), fraction)

\* Synodic month = 29.53058867 days (the double nearest to it)
synodicMonth == Dec(1, <<29, 5305, 8867, 0, 2>>)

\* new Date('2000-01-06T18:14:00Z') in a zone
referenceNewMoon(zone) == DateAt(zone, DaysFromCivil(2000, 1, 6), 18 * 3600 + 14 * 60, 0)

\* Calculate days since the last new moon
daysSinceNewMoon(date) ==
    LET referenceJD == julianDay(referenceNewMoon(date.zone))
        currentJD == julianDay(date)
        daysSince == DecSub(currentJD, referenceJD)
    IN  IF "time" \in DOMAIN date THEN DecNaN
        ELSE DecMod(DecAdd(DecMod(daysSince, synodicMonth), synodicMonth), synodicMonth)

\* Calculate moon phase (0 = new moon, 0.5 = full moon, 1 = new moon again)
getMoonPhase(date) == DecOver(daysSinceNewMoon(date), synodicMonth)

\* Mutant of illuminationOfPhase: the waxing ramp over the whole cycle
illuminationOfPhase_RampOnly(phase) ==
    DecMul(DecMul(phase, DecOfInt(2)), DecOfInt(100))

\* getMoonIllumination, the part after the phase is known: phase * 2 * 100
\* while phase < 0.5 (waxing), (1 - phase) * 2 * 100 from there on (waning)
illuminationOfPhase(phase) ==
    IF DecIsNaN(phase) THEN DecNaN
    ELSE IF DecLt(phase, ToDecimal(Frac(1, 2)))
    THEN DecMul(DecMul(phase, DecOfInt(2)), DecOfInt(100))
    ELSE DecMul(DecMul(DecSub(DecOfInt(1), phase), DecOfInt(2)), DecOfInt(100))

\* Calculate moon illumination percentage (0-100%)
getMoonIllumination(date) == illuminationOfPhase(getMoonPhase(date))

\* Mutant of moonIlluminationToLux: the new-moon floor is left out
moonIlluminationToLux_NoFloor(illumination) ==
    DecMul(ToDecimal(Frac(27, 100)), DecDiv(illumination, DecOfInt(100)))

\* Mutant of moonIlluminationToLux: the slope is maxLux, not maxLux - minLux
moonIlluminationToLux_FullSlope(illumination) ==
    DecAdd(ToDecimal(Frac(1, 1000)),
           DecMul(ToDecimal(Frac(27, 100)), DecDiv(illumination, DecOfInt(100))))

\* Convert moon illumination percentage to approximate lux
moonIlluminationToLux(illumination) ==
    LET minLux == ToDecimal(Frac(1, 1000))
        maxLux == ToDecimal(Frac(27, 100))
    IN  DecAdd(minLux, DecMul(DecSub(maxLux, minLux), DecDiv(illumination, DecOfInt(100))))

\* Get current moon lux value for a given date
getMoonLux(date) == moonIlluminationToLux(getMoonIllumination(date))

----------------------------------------------------------------------------
(* Lux (useSunCalculations.ts, calculateLux) *)

\* Light intensity (lux) reference points
NIGHT_BASE == Frac(1, 1000)
ASTRONOMICAL_TWILIGHT == Frac(1, 10)
NAUTICAL_TWILIGHT == R(1)
CIVIL_TWILIGHT_MIN == R(10)
SUNRISE_SUNSET == R(100)
CIVIL_TWILIGHT_MAX == R(1000)
NOON_DIRECT_SUN == R(100000)

\* 30 minutes for smooth transition
TWILIGHT_TRANSITION == 30

\* Mutant of luxDeepNight: the night base is taken off the moon lux
luxDeepNight_LessBase(moonLux) == DecSub(moonLux, ToDecimal(Frac(1, 1000)))

\* Deep night: just the moon lux, a decimal
luxDeepNight(moonLux) == moonLux

\* lerp in decimals: start + (end - start) * t
DecLerp(start, end, t) == DecAdd(start, DecMul(DecSub(end, start), t))

\* smoothStep in decimals: t * t * (3 - 2 * t)
DecSmoothStep(t) == DecMul(DecMul(t, t), DecSub(DecOfInt(3), DecMul(DecOfInt(2), t)))

\* Sunrise to solar noon: 100 -> 1000 over the first 20%, then ease-out to 100000
luxMorning(progress) ==
    IF Lt(progress, Frac(1, 5))
    THEN LET earlyProgress == ToDecimal(Div(progress, Frac(1, 5)))
         IN  DecLerp(ToDecimal(SUNRISE_SUNSET), ToDecimal(CIVIL_TWILIGHT_MAX),
                     DecSmoothStep(earlyProgress))
    ELSE LET lateProgress == ToDecimal(Div(Sub(progress, Frac(1, 5)), Frac(4, 5)))
             rest == DecSub(DecOfInt(1), lateProgress)
         IN  DecLerp(ToDecimal(CIVIL_TWILIGHT_MAX), ToDecimal(NOON_DIRECT_SUN),
                     DecSub(DecOfInt(1), DecMul(rest, rest)))

\* Mutant of luxAfternoon: the 5% dip is applied at once, not eased in
luxAfternoon_FlatDip(progress) ==
    IF Lt(progress, Frac(1, 2))
    THEN DecMul(ToDecimal(NOON_DIRECT_SUN), DecSub(DecOfInt(1), ToDecimal(Frac(1, 20))))
    ELSE DecLerp(ToDecimal(Product(NOON_DIRECT_SUN, Frac(19, 20))), ToDecimal(SUNRISE_SUNSET),
                 DecSmoothStep(ToDecimal(Div(Sub(progress, Frac(1, 2)), Frac(1, 2)))))

\* Solar noon to sunset: a smooth 5% dip over the first half, then down to 100
\* (100000 * 0.95 is the double 95000)
luxAfternoon(progress) ==
    IF Lt(progress, Frac(1, 2))
    THEN LET earlyProgress == ToDecimal(Div(progress, Frac(1, 2)))
         IN  DecMul(ToDecimal(NOON_DIRECT_SUN),
                    DecSub(DecOfInt(1), DecMul(DecSmoothStep(earlyProgress), ToDecimal(Frac(1, 20)))))
    ELSE DecLerp(ToDecimal(Product(NOON_DIRECT_SUN, Frac(19, 20))), ToDecimal(SUNRISE_SUNSET),
                 DecSmoothStep(ToDecimal(Div(Sub(progress, Frac(1, 2)), Frac(1, 2)))))

\* Pre-astronomical twilight transition: base night + moon -> 0.1
luxPreDawn(moonLux, progress) ==
    DecLerp(DecAdd(ToDecimal(NIGHT_BASE), moonLux), ToDecimal(ASTRONOMICAL_TWILIGHT),
            DecSmoothStep(ToDecimal(progress)))

\* Astronomical twilight begin to nautical twilight begin: 0.1 -> 1
luxAstroDawn(progress) ==
    DecLerp(ToDecimal(ASTRONOMICAL_TWILIGHT), ToDecimal(NAUTICAL_TWILIGHT),
            DecSmoothStep(ToDecimal(progress)))

\* Nautical twilight begin to civil twilight begin: 1 -> 10
luxNauticalDawn(progress) ==
    DecLerp(ToDecimal(NAUTICAL_TWILIGHT), ToDecimal(CIVIL_TWILIGHT_MIN),
            DecSmoothStep(ToDecimal(progress)))

\* Civil twilight begin to sunrise: 10 -> 100, quadratic ease-in
luxCivilDawn(progress) ==
    DecLerp(ToDecimal(CIVIL_TWILIGHT_MIN), ToDecimal(SUNRISE_SUNSET),
            DecMul(ToDecimal(progress), ToDecimal(progress)))

\* Mutant of luxCivilDusk: the sunset branch of the earlier calculateLux,
\* first 30% from 1000 down to 100, then 1000 -> 10
luxCivilDusk_Earlier(progress) ==
    IF Lt(progress, Frac(3, 10))
    THEN LET earlyProgress == ToDecimal(Div(progress, Frac(3, 10)))
         IN  DecLerp(ToDecimal(SUNRISE_SUNSET), ToDecimal(CIVIL_TWILIGHT_MAX),
                     DecSub(DecOfInt(1), DecMul(earlyProgress, earlyProgress)))
    ELSE DecLerp(ToDecimal(CIVIL_TWILIGHT_MAX), ToDecimal(CIVIL_TWILIGHT_MIN),
                 DecSmoothStep(ToDecimal(Div(Sub(progress, Frac(3, 10)), Frac(7, 10)))))

\* Sunset to civil twilight end: 100 -> 10, quadratic ease-in
luxCivilDusk(progress) ==
    DecLerp(ToDecimal(SUNRISE_SUNSET), ToDecimal(CIVIL_TWILIGHT_MIN),
            DecMul(ToDecimal(progress), ToDecimal(progress)))

\* Civil twilight end to nautical twilight end: 10 -> 1
luxNauticalDusk(progress) ==
    DecLerp(ToDecimal(CIVIL_TWILIGHT_MIN), ToDecimal(NAUTICAL_TWILIGHT),
            DecSmoothStep(ToDecimal(progress)))

\* Nautical twilight end to astronomical twilight end: 1 -> 0.1
luxAstroDusk(progress) ==
    DecLerp(ToDecimal(NAUTICAL_TWILIGHT), ToDecimal(ASTRONOMICAL_TWILIGHT),
            DecSmoothStep(ToDecimal(progress)))

\* Post-astronomical twilight transition: 0.1 -> base night + moon
luxPostDusk(moonLux, progress) ==
    DecLerp(ToDecimal(ASTRONOMICAL_TWILIGHT), DecAdd(ToDecimal(NIGHT_BASE), moonLux),
            DecSmoothStep(ToDecimal(progress)))

\* calculateLux from the moon lux on: the branch of the time of day and its
\* stage function, a decimal
luxUnderMoon(minutes, sunrise, sunset, solarNoon, civilTwilightBegin, civilTwilightEnd, nauticalTwilightBegin, nauticalTwilightEnd, astroTwilightBegin, astroTwilightEnd, moonLux) ==
    LET preDawnTransition == Sub(astroTwilightBegin, R(TWILIGHT_TRANSITION))
        postDuskTransition == Add(astroTwilightEnd, R(TWILIGHT_TRANSITION))
        P(from, to) == Div(Sub(minutes, from), Sub(to, from))
    IN  IF Lt(minutes, preDawnTransition) \/ Gt(minutes, postDuskTransition)
        THEN luxDeepNight(moonLux)
        ELSE IF Geq(minutes, preDawnTransition) /\ Lt(minutes, astroTwilightBegin)
        THEN luxPreDawn(moonLux, P(preDawnTransition, astroTwilightBegin))
        ELSE IF Geq(minutes, astroTwilightBegin) /\ Lt(minutes, nauticalTwilightBegin)
        THEN luxAstroDawn(P(astroTwilightBegin, nauticalTwilightBegin))
        ELSE IF Geq(minutes, nauticalTwilightBegin) /\ Lt(minutes, civilTwilightBegin)
        THEN luxNauticalDawn(P(nauticalTwilightBegin, civilTwilightBegin))
        ELSE IF Geq(minutes, civilTwilightBegin) /\ Lt(minutes, sunrise)
        THEN luxCivilDawn(P(civilTwilightBegin, sunrise))
        ELSE IF Geq(minutes, sunrise) /\ Lt(minutes, solarNoon)
        THEN luxMorning(P(sunrise, solarNoon))
        ELSE IF Geq(minutes, solarNoon) /\ Lt(minutes, sunset)
        THEN luxAfternoon(P(solarNoon, sunset))
        ELSE IF Geq(minutes, sunset) /\ Leq(minutes, civilTwilightEnd)
        THEN luxCivilDusk(P(sunset, civilTwilightEnd))
        ELSE IF Gt(minutes, civilTwilightEnd) /\ Leq(minutes, nauticalTwilightEnd)
        THEN luxNauticalDusk(P(civilTwilightEnd, nauticalTwilightEnd))
        ELSE IF Gt(minutes, nauticalTwilightEnd) /\ Leq(minutes, astroTwilightEnd)
        THEN luxAstroDusk(P(nauticalTwilightEnd, astroTwilightEnd))
        ELSE IF Gt(minutes, astroTwilightEnd) /\ Leq(minutes, postDuskTransition)
        THEN luxPostDusk(moonLux, P(astroTwilightEnd, postDuskTransition))
        ELSE DecAdd(ToDecimal(NIGHT_BASE), moonLux)

\* Calculate light intensity in lux based on time and sun events, a decimal;
\* the moon lux is that of the reference date at the time of day of minutes
calculateLux(minutes, sunrise, sunset, solarNoon, civilTwilightBegin, civilTwilightEnd, nauticalTwilightBegin, nauticalTwilightEnd, astroTwilightBegin, astroTwilightEnd, referenceDate) ==
    luxUnderMoon(minutes, sunrise, sunset, solarNoon, civilTwilightBegin, civilTwilightEnd,
                 nauticalTwilightBegin, nauticalTwilightEnd, astroTwilightBegin, astroTwilightEnd,
                 getMoonLux(dateWithTime(referenceDate, minutes)))

----------------------------------------------------------------------------
(* Darkness (useSunCalculations.ts, luxToDarkness) *)

\* the digits of 10^(j/100) for j = 0..100, entry j + 1
TenToTheHundredths ==
    << <<1, 0, 0, 0, 0>>, <<1, 232, 9299, 2280, 7541>>, <<1, 471, 2854, 8050, 8995>>,
       <<1, 715, 1930, 5237, 6064>>, <<1, 964, 7819, 6143, 1850>>, <<1, 1220, 1845, 4301, 9634>>,
       <<1, 1481, 5362, 1496, 8828>>, <<1, 1748, 9755, 4939, 5295>>, <<1, 2022, 6443, 4617, 4129>>,
       <<1, 2302, 6877, 812, 3815>>, <<1, 2589, 2541, 1794, 1672>>, <<1, 2882, 4955, 1693, 1340>>,
       <<1, 3182, 5673, 8556, 4071>>, <<1, 3489, 6288, 2591, 6536>>, <<1, 3803, 8426, 4602, 8848>>,
       <<1, 4125, 3754, 4622, 7543>>, <<1, 4454, 3977, 745, 9275>>, <<1, 4791, 838, 8168, 2074>>,
       <<1, 5135, 6124, 8436, 2082>>, <<1, 5488, 1661, 8912, 4813>>, <<1, 5848, 9319, 2461, 1135>>,
       <<1, 6218, 1009, 7358, 9300>>, <<1, 6595, 8690, 7437, 5606>>, <<1, 6982, 4365, 2461, 7444>>,
       <<1, 7378, 82, 8749, 3755>>, <<1, 7782, 7941, 38, 9228>>, <<1, 8197, 85, 8609, 9834>>,
       <<1, 8620, 8713, 6662, 8674>>, <<1, 9054, 6071, 7963, 2472>>, <<1, 9498, 4459, 9758, 453>>,
       <<1, 9952, 6231, 4968, 8796>>, <<2, 417, 3794, 4669, 5293>>, <<2, 892, 9613, 854, 395>>,
       <<2, 1379, 6208, 9502, 2321>>, <<2, 1877, 6162, 3949, 5526>>, <<2, 2387, 2113, 8568, 3396>>,
       <<2, 2908, 6765, 2767, 7730>>, <<2, 3442, 2881, 5319, 9221>>, <<2, 3988, 3291, 9019, 4905>>,
       <<2, 4547, 891, 5685, 304>>, <<2, 5118, 8643, 1509, 5801>>, <<2, 5703, 9578, 2768, 8638>>,
       <<2, 6302, 6799, 1895, 3819>>, <<2, 6915, 3480, 3926, 9157>>, <<2, 7542, 2870, 3338, 1664>>,
       <<2, 8183, 8293, 1264, 4538>>, <<2, 8840, 3150, 3126, 6059>>, <<2, 9512, 922, 6666, 3857>>,
       <<3, 199, 5172, 402, 162>>, <<3, 902, 9543, 2513, 5905>>, <<3, 1622, 7766, 168, 3793>>,
       <<3, 2359, 3656, 9296, 2826>>, <<3, 3113, 1121, 4825, 9109>>, <<3, 3884, 4156, 1392, 255>>,
       <<3, 4673, 6850, 4525, 3164>>, <<3, 5481, 3389, 2335, 7546>>, <<3, 6307, 8054, 7701, 134>>,
       <<3, 7153, 5229, 971, 7254>>, <<3, 8018, 9396, 3205, 6120>>, <<3, 8904, 5144, 9942, 8060>>,
       <<3, 9810, 7170, 5534, 9725>>, <<4, 738, 277, 8041, 1273>>, <<4, 1686, 9383, 4703, 3540>>,
       <<4, 2657, 9518, 8015, 9266>>, <<4, 3651, 5832, 2401, 6597>>, <<4, 4668, 3592, 1509, 6312>>,
       <<4, 5708, 8189, 6148, 7503>>, <<4, 6773, 5141, 2871, 9819>>, <<4, 7863, 92, 3226, 3834>>,
       <<4, 8977, 8819, 3684, 4620>>, <<5, 118, 7233, 6272, 7229>>, <<5, 1286, 1383, 9913, 6486>>,
       <<5, 2480, 7460, 2497, 7260>>, <<5, 3703, 1796, 3702, 5273>>, <<5, 4954, 873, 8576, 2455>>,
       <<5, 6234, 1325, 1903, 4908>>, <<5, 7543, 9937, 3371, 5693>>, <<5, 8884, 3655, 3555, 8897>>,
       <<6, 255, 9586, 743, 5775>>, <<6, 1659, 5001, 8614, 8217>>, <<6, 3095, 7344, 4801, 9325>>,
       <<6, 4565, 4229, 346, 5552>>, <<6, 6069, 3448, 75, 9601>>, <<6, 7608, 2975, 3919, 8177>>,
       <<6, 9183, 970, 9189, 3649>>, <<7, 794, 5784, 3841, 3791>>, <<7, 2443, 5960, 749, 9006>>,
       <<7, 4131, 241, 3009, 1751>>, <<7, 5857, 7575, 291, 8377>>, <<7, 7624, 7116, 6286, 9173>>,
       <<7, 9432, 8234, 7242, 8150>>, <<8, 1283, 516, 1640, 9925>>, <<8, 3176, 3771, 1026, 7101>>,
       <<8, 5113, 8038, 2023, 7647>>, <<8, 7096, 3589, 9560, 8064>>, <<8, 9125, 938, 1337, 4553>>,
       <<9, 1201, 839, 3559, 974>>, <<9, 3325, 4300, 7969, 9104>>, <<9, 5499, 2586, 214, 3595>>,
       <<9, 7723, 7220, 9558, 1068>>, <<10, 0, 0, 0, 0>> >>

\* x = m * 10^k with 1 <= m < 10, for a decimal x > 0: the decade k and the
\* digits of m
Decade(x) ==
    LET \* const name = value: the value is computed once and then named
        Bind(value, Body(_)) == CHOOSE result \in { Body(name) : name \in {value} } : TRUE
        ten == <<1, 10, 100, 1000, 10000, 100000>>
        a == Dec(1, x.digits)
    IN  IF x.digits[1] >= 1
        THEN Bind(DigitsOf(x.digits[1], 10) - 1, LAMBDA k :
                 [k |-> k,
                  m |-> IF k <= 5 THEN DecDiv(a, DecOfInt(ten[k + 1])).digits
                        ELSE DecDiv(DecDiv(a, DecOfInt(ten[6])), DecOfInt(ten[k - 4])).digits])
        ELSE Bind(CHOOSE i \in 2..5 : x.digits[i] # 0 /\ \A j \in 1..(i - 1) : x.digits[j] = 0,
                  LAMBDA first :
             Bind([j \in 1..5 |-> IF j + first - 1 <= 5 THEN x.digits[j + first - 1] ELSE 0],
                  LAMBDA shifted :
             Bind(DigitsOf(shifted[1], 10) - 1, LAMBDA p :
                 [k |-> p - 4 * (first - 1),
                  m |-> DecDiv(Dec(1, shifted), DecOfInt(ten[p + 1])).digits])))

\* ln(1 + r) for |r| < 1/40, by ten terms of r - r^2/2 + r^3/3 - ...: the next
\* term is below 10^-17
MathLog1p(r) ==
    LET \* const name = value: the value is computed once and then named
        Bind(value, Body(_)) == CHOOSE result \in { Body(name) : name \in {value} } : TRUE
        RECURSIVE LogSeries(_, _)
        \* 1/n - r/(n+1) + r^2/(n+2) - ... up to the term of 1/10, s being that
        \* sum from 1/(n+1) on
        LogSeries(n, s) ==
            IF n = 0 THEN s
            ELSE Bind(DecSub(DecDiv(DecOfInt(1), DecOfInt(n)), DecMul(r, s)),
                      LAMBDA sum : LogSeries(n - 1, sum))
    IN  DecMul(r, LogSeries(9, DecDiv(DecOfInt(1), DecOfInt(10))))

\* Math.log10, to fifteen decimal places; exact at the powers of ten. Of 0 it
\* is -Infinity, the decimal of sign -2, to which no arithmetic is applied
MathLog10(x) ==
    LET \* const name = value: the value is computed once and then named
        Bind(value, Body(_)) == CHOOSE result \in { Body(name) : name \in {value} } : TRUE
        RECURSIVE HundredthsBelow(_, _, _)
        \* the largest j in lo..hi with 10^(j/100) <= m
        HundredthsBelow(m, lo, hi) ==
            IF lo = hi THEN lo
            ELSE IF DecLt(m, Dec(1, TenToTheHundredths[(lo + hi + 1) \div 2 + 1]))
            THEN HundredthsBelow(m, lo, (lo + hi + 1) \div 2 - 1)
            ELSE HundredthsBelow(m, (lo + hi + 1) \div 2, hi)
        \* log10(e) = 1 / ln(10)
        LOG10E == Dec(1, <<0, 4342, 9448, 1903, 2518>>)
    IN  IF DecIsNaN(x) \/ x.sign < 0 THEN DecNaN
        ELSE IF x.digits = <<0, 0, 0, 0, 0>> THEN Dec(0 - 2, <<0, 0, 0, 0, 0>>)
        ELSE Bind(Decade(x), LAMBDA e :
             Bind(Dec(1, e.m), LAMBDA m :
             Bind(HundredthsBelow(m, 0, 100), LAMBDA j :
             Bind(DecMul(m, DecDiv(Dec(1, TenToTheHundredths[101 - j]), DecOfInt(10))),
                  LAMBDA y :
             Bind(MathLog1p(DecSub(y, DecOfInt(1))), LAMBDA ln :
                 DecAdd(DecAdd(DecOfInt(e.k), DecDiv(DecOfInt(j), DecOfInt(100))),
                        DecMul(ln, LOG10E)))))))

\* Convert lux to darkness percentage (0-100%)
luxToDarkness(lux) ==
    LET \* const name = value: the value is computed once and then named
        Bind(value, Body(_)) == CHOOSE result \in { Body(name) : name \in {value} } : TRUE
        minLux == ToDecimal(NIGHT_BASE)
        maxLux == ToDecimal(NOON_DIRECT_SUN)
    IN  Bind(MathLog10(minLux), LAMBDA logMin :
        Bind(MathLog10(maxLux), LAMBDA logMax :
        Bind(MathLog10(DecMax(minLux, DecMin(maxLux, lux))), LAMBDA logLux :
        Bind(DecSub(DecOfInt(100),
                    DecMul(DecDiv(DecSub(logLux, logMin), DecSub(logMax, logMin)),
                           DecOfInt(100))), LAMBDA linearDarkness :
        Bind(DecDiv(linearDarkness, DecOfInt(100)), LAMBDA normalized :
        Bind(normalized, LAMBDA t :
        Bind(IF DecLt(t, ToDecimal(Frac(1, 2)))
             THEN DecMul(DecMul(DecMul(DecOfInt(4), t), t), t)
             ELSE Bind(DecAdd(DecMul(DecOfInt(0 - 2), t), DecOfInt(2)), LAMBDA u :
                      DecSub(DecOfInt(1), DecDiv(DecMul(DecMul(u, u), u), DecOfInt(2)))),
             LAMBDA curved :
        Bind(DecMul(curved, DecOfInt(100)), LAMBDA darkness :
            DecMax(DecOfInt(0), DecMin(DecOfInt(100), darkness))))))))))

----------------------------------------------------------------------------
(* Inputs: the times, schedules and dates the environment delivers *)

\* Times of the clock and of the sundial: getTimeMinutes(h, m, 0) on the grid
Times ==
    {getTimeMinutes(h, k * (60 \div StepsPerHour), 0) :
        h \in 0..23, k \in 0..(StepsPerHour - 1)}

HM(total) == Timestamp(total \div 60, total % 60, 0)

\* The results of one provider response: nine timestamps of one local day,
\* from sunrise, solar noon and sunset (minutes) and the length of a twilight
\* stage before sunrise (dawn) and after sunset (dusk).
MkResults(rise, noon, set, dawn, dusk) ==
    [ astronomical_twilight_begin |-> HM(rise - 3 * dawn),
      nautical_twilight_begin     |-> HM(rise - 2 * dawn),
      civil_twilight_begin        |-> HM(rise - dawn),
      sunrise                     |-> HM(rise),
      solar_noon                  |-> HM(noon),
      sunset                      |-> HM(set),
      civil_twilight_end          |-> HM(set + dusk),
      nautical_twilight_end       |-> HM(set + 2 * dusk),
      astronomical_twilight_end   |-> HM(set + 3 * dusk) ]

\* sunrise, solar noon, sunset of an equinox day, of a short day in a zone
\* whose clock runs ahead of the sun, and of a long day
SunTriples == { <<360, 720, 1080>>, <<480, 810, 1110>>, <<270, 720, 1200>> }

ScheduleResults ==
    { MkResults(t[1], t[2], t[3], 30 * a, 30 * b) :
        t \in { u \in SunTriples : /\ u[1] - 90 * MaxTwilightHalfHours > 0
                                   /\ u[3] + 90 * MaxTwilightHalfHours < 1440 }
             \cup { <<360, 720, 1080>> },
        a \in 1..MaxTwilightHalfHours, b \in 1..MaxTwilightHalfHours }

\* Results with two adjacent boundaries at the same minute: sunset and civil
\* twilight end, sunrise and solar noon
DegenerateResults ==
    { [MkResults(360, 720, 1080, 30, 30) EXCEPT !.civil_twilight_end = HM(1080)],
      [MkResults(360, 720, 1080, 30, 30) EXCEPT !.sunrise = HM(720)] }

\* Results of a summer day whose astronomical twilight ends after local
\* midnight, at 00:30: as minutes of the day the boundaries are out of order
OutOfOrderResults ==
    { [MkResults(270, 720, 1200, 60, 60) EXCEPT !.astronomical_twilight_end = HM(30)] }

\* Results with a timestamp that new Date() cannot parse
UnparsableResults ==
    { [MkResults(360, 720, 1080, 30, 30) EXCEPT !.sunrise = InvalidDate] }

\* What getSunInformation() resolves to
Responses ==
    { [status |-> "OK", results |-> r] :
          r \in ScheduleResults \cup DegenerateResults
                \cup OutOfOrderResults \cup UnparsableResults }
    \cup { [status |-> "INVALID_REQUEST", results |-> r] : r \in ScheduleResults }

\* sunInfo before the first OK response
Null == [status |-> "null"]

\* Days of the clock, in a zone 5 h 46 min ahead of UTC, where the reference
\* new moon falls on local midnight: the day that begins with the new moon,
\* the day that begins 5 h 38 min after the full moon, a day of a later year
ClockDates ==
    << DateOf(DaysFromCivil(2000, 1, 7), 0, 0, FixedZone(346)),
       DateOf(DaysFromCivil(2000, 1, 22), 0, 0, FixedZone(346)),
       DateOf(DaysFromCivil(2026, 10, 30), 0, 0, FixedZone(346)) >>

Todays == { ClockDates[i] : i \in 1..(IF ClockDays < 3 THEN ClockDays ELSE 3) }

\* The nine boundaries of a SunInformation in minutes, as every composable
\* extracts them with timeToMinutes
BoundariesOf(info) ==
    [ astroTwilightBegin    |-> timeToMinutes(info.results.astronomical_twilight_begin),
      nauticalTwilightBegin |-> timeToMinutes(info.results.nautical_twilight_begin),
      civilTwilightBegin    |-> timeToMinutes(info.results.civil_twilight_begin),
      sunrise               |-> timeToMinutes(info.results.sunrise),
      solarNoon             |-> timeToMinutes(info.results.solar_noon),
      sunset                |-> timeToMinutes(info.results.sunset),
      civilTwilightEnd      |-> timeToMinutes(info.results.civil_twilight_end),
      nauticalTwilightEnd   |-> timeToMinutes(info.results.nautical_twilight_end),
      astroTwilightEnd      |-> timeToMinutes(info.results.astronomical_twilight_end) ]

\* The DaySchedule invariant of the specification: nine boundaries of one
\* day, strictly increasing
IsValidSchedule(info) ==
    /\ info # Null
    /\ LET b == BoundariesOf(info)
       IN  /\ Geq(b.astroTwilightBegin, R(0))
           /\ Lt(b.astroTwilightBegin, b.nauticalTwilightBegin)
           /\ Lt(b.nauticalTwilightBegin, b.civilTwilightBegin)
           /\ Lt(b.civilTwilightBegin, b.sunrise)
           /\ Lt(b.sunrise, b.solarNoon)
           /\ Lt(b.solarNoon, b.sunset)
           /\ Lt(b.sunset, b.civilTwilightEnd)
           /\ Lt(b.civilTwilightEnd, b.nauticalTwilightEnd)
           /\ Lt(b.nauticalTwilightEnd, b.astroTwilightEnd)
           /\ Lt(b.astroTwilightEnd, dayLength)

----------------------------------------------------------------------------
(* The computed values of the composables *)

HueAt(minutes, info) ==
    LET b == BoundariesOf(info)
    IN  calculateHue(minutes, b.sunrise, b.sunset, b.solarNoon,
                     b.civilTwilightBegin, b.civilTwilightEnd)

LuxAt(minutes, info, referenceDate) ==
    LET b == BoundariesOf(info)
    IN  calculateLux(minutes, b.sunrise, b.sunset, b.solarNoon,
                     b.civilTwilightBegin, b.civilTwilightEnd,
                     b.nauticalTwilightBegin, b.nauticalTwilightEnd,
                     b.astroTwilightBegin, b.astroTwilightEnd, referenceDate)

\* calculateLux of a schedule under a given moon lux, the boundaries
\* extracted with timeToMinutes
LuxUnder(minutes, info, moonLux) ==
    luxUnderMoon(minutes,
                 timeToMinutes(info.results.sunrise),
                 timeToMinutes(info.results.sunset),
                 timeToMinutes(info.results.solar_noon),
                 timeToMinutes(info.results.civil_twilight_begin),
                 timeToMinutes(info.results.civil_twilight_end),
                 timeToMinutes(info.results.nautical_twilight_begin),
                 timeToMinutes(info.results.nautical_twilight_end),
                 timeToMinutes(info.results.astronomical_twilight_begin),
                 timeToMinutes(info.results.astronomical_twilight_end),
                 moonLux)

SaturationAt(minutes, info, dark) ==
    LET b == BoundariesOf(info)
    IN  calculateSaturation(minutes, b.sunrise, b.sunset, b.solarNoon,
                            b.civilTwilightBegin, b.civilTwilightEnd, dark)

currentLux ==
    IF sunInfo = Null THEN DecOfInt(0) ELSE LuxAt(currentMinutes, sunInfo, today)

calculateDarkValue ==
    IF sunInfo = Null THEN DecOfInt(50)
    ELSE luxToDarkness(LuxAt(currentMinutes, sunInfo, today))

darkValue ==
    LET value == calculateDarkValue
    IN  IF DecIsNaN(value) THEN NaN
        ELSE Div(R(DecRound(DecMul(value, DecOfInt(100)))), R(100))

bgHue ==
    IF sunInfo = Null THEN R(0) ELSE HueAt(currentMinutes, sunInfo)

bgSaturation ==
    IF sunInfo = Null THEN R(10) ELSE SaturationAt(currentMinutes, sunInfo, darkValue)

----------------------------------------------------------------------------
(* The next event (useSunCalculations.ts, findNextEvent) *)

\* the events array: the nine boundaries of the schedule, then midnight
EventsOf(info) ==
    LET b == BoundariesOf(info)
    IN  << [name |-> "Astronomical Twilight Begin", minutes |-> b.astroTwilightBegin],
           [name |-> "Nautical Twilight Begin", minutes |-> b.nauticalTwilightBegin],
           [name |-> "Civil Twilight Begin", minutes |-> b.civilTwilightBegin],
           [name |-> "Sunrise", minutes |-> b.sunrise],
           [name |-> "Solar Noon", minutes |-> b.solarNoon],
           [name |-> "Sunset", minutes |-> b.sunset],
           [name |-> "Civil Twilight End", minutes |-> b.civilTwilightEnd],
           [name |-> "Nautical Twilight End", minutes |-> b.nauticalTwilightEnd],
           [name |-> "Astronomical Twilight End", minutes |-> b.astroTwilightEnd],
           [name |-> "Midnight", minutes |-> R(24 * 60)] >>

\* Mutant of minutesUntilEvent: an event at the current minute counts as due
\* now, not tomorrow
minutesUntilEvent_NowIsNext(eventMinutes, minutes) ==
    LET minutesUntil == Sub(eventMinutes, minutes)
    IN  IF Lt(minutesUntil, R(0)) THEN Add(minutesUntil, R(24 * 60)) ELSE minutesUntil

\* the wait for one event: a day is added when the event is not ahead
minutesUntilEvent(eventMinutes, minutes) ==
    LET minutesUntil == Sub(eventMinutes, minutes)
    IN  IF Leq(minutesUntil, R(0)) THEN Add(minutesUntil, R(24 * 60)) ELSE minutesUntil

\* the loop over events[i..]: found is nextEvent and minMinutesUntil so far,
\* with the name "--" standing for nextEvent = null, minMinutesUntil = Infinity
RECURSIVE nextEventFrom(_, _, _, _)
nextEventFrom(events, i, minutes, found) ==
    IF i > Len(events) THEN found
    ELSE LET minutesUntil == minutesUntilEvent(events[i].minutes, minutes)
             closer == \/ (found.event = "--" /\ ~IsNaN(minutesUntil))
                       \/ Lt(minutesUntil, found.minutesUntil)
         IN  nextEventFrom(events, i + 1, minutes,
                           IF closer
                           THEN [event |-> events[i].name, minutesUntil |-> minutesUntil]
                           ELSE found)

findNextEvent ==
    IF sunInfo = Null THEN [event |-> "--", minutesUntil |-> R(0)]
    ELSE nextEventFrom(EventsOf(sunInfo), 1, currentMinutes,
                       [event |-> "--", minutesUntil |-> R(0)])

----------------------------------------------------------------------------
(* App.vue, calculateDarkValue: the darkness as a piecewise function of the
   time between fixed percentages, without lux *)

\* the night before astronomical twilight begin: 100 -> 95, progress counted
\* from the previous day's astronomical twilight end
darkPreDawn(minutes, astroTwilightBegin, astroTwilightEnd) ==
    LET prevAstroTwilightEnd == Sub(astroTwilightEnd, R(24 * 60))
        nightDuration == Sub(astroTwilightBegin, prevAstroTwilightEnd)
        timeSinceEnd == Sub(minutes, prevAstroTwilightEnd)
        progress == Div(timeSinceEnd, nightDuration)
    IN  lerp(R(100), R(95), smoothStep(progress))

\* the night after astronomical twilight end: 95 -> 100, progress counted
\* up to the next day's astronomical twilight begin
darkPostDusk(minutes, astroTwilightBegin, astroTwilightEnd) ==
    LET nextAstroTwilightBegin == Add(astroTwilightBegin, R(24 * 60))
        nightDuration == Sub(nextAstroTwilightBegin, astroTwilightEnd)
        timeSinceEnd == Sub(minutes, astroTwilightEnd)
        progress == Div(timeSinceEnd, nightDuration)
    IN  lerp(R(95), R(100), smoothStep(progress))

calculateDarkValueOfApp(minutes, info) ==
    LET b == BoundariesOf(info)
        P(from, to) == Div(Sub(minutes, from), Sub(to, from))
        Seg(from, to) == Geq(minutes, from) /\ Lt(minutes, to)
    IN  IF /\ Lt(minutes, b.astroTwilightBegin)
           /\ Gt(minutes, Sub(b.astroTwilightEnd, R(24 * 60)))
        THEN darkPreDawn(minutes, b.astroTwilightBegin, b.astroTwilightEnd)
        ELSE IF /\ Gt(minutes, b.astroTwilightEnd)
                /\ Lt(minutes, Add(b.astroTwilightBegin, R(24 * 60)))
        THEN darkPostDusk(minutes, b.astroTwilightBegin, b.astroTwilightEnd)
        ELSE IF Seg(b.astroTwilightBegin, b.nauticalTwilightBegin)
        THEN lerp(R(95), R(85), smoothStep(P(b.astroTwilightBegin, b.nauticalTwilightBegin)))
        ELSE IF Seg(b.nauticalTwilightBegin, b.civilTwilightBegin)
        THEN lerp(R(85), R(70), smoothStep(P(b.nauticalTwilightBegin, b.civilTwilightBegin)))
        ELSE IF Seg(b.civilTwilightBegin, b.sunrise)
        THEN lerp(R(70), R(40), smoothStep(P(b.civilTwilightBegin, b.sunrise)))
        ELSE IF Seg(b.sunrise, b.solarNoon)
        THEN lerp(R(40), R(0), smoothStep(P(b.sunrise, b.solarNoon)))
        ELSE IF Seg(b.solarNoon, b.sunset)
        THEN lerp(R(0), R(40), smoothStep(P(b.solarNoon, b.sunset)))
        ELSE IF Seg(b.sunset, b.civilTwilightEnd)
        THEN lerp(R(40), R(70), smoothStep(P(b.sunset, b.civilTwilightEnd)))
        ELSE IF Seg(b.civilTwilightEnd, b.nauticalTwilightEnd)
        THEN lerp(R(70), R(85), smoothStep(P(b.civilTwilightEnd, b.nauticalTwilightEnd)))
        ELSE IF Seg(b.nauticalTwilightEnd, b.astroTwilightEnd)
        THEN lerp(R(85), R(95), smoothStep(P(b.nauticalTwilightEnd, b.astroTwilightEnd)))
        ELSE R(100)

----------------------------------------------------------------------------
(* The application: state after setup and onMounted's first statement *)

NoProbe == [applied |-> FALSE, lux1 |-> DecOfInt(0), lux2 |-> DecOfInt(0),
            darkness1 |-> DecOfInt(0), darkness2 |-> DecOfInt(0)]

Init ==
    /\ sunInfo = Null
    /\ currentMinutes \in Times
    /\ isDragging = FALSE
    /\ isOverrideMode = FALSE
    /\ today \in Todays
    /\ probe = NoProbe

\* Mutant of fetchSunInfo: the response is stored whatever its status
fetchSunInfo_AnyStatus ==
    /\ \E data \in Responses : sunInfo' = data
    /\ UNCHANGED <<currentMinutes, isDragging, isOverrideMode, today, probe>>

\* fetchSunInfo: the response replaces sunInfo only when its status is OK
fetchSunInfo ==
    /\ \E data \in Responses :
           sunInfo' = IF data.status = "OK" THEN data ELSE sunInfo
    /\ UNCHANGED <<currentMinutes, isDragging, isOverrideMode, today, probe>>

\* fetchSunInfo when getSunInformation() rejects: the error is logged
fetchSunInfoThrows ==
    UNCHANGED vars

\* The setInterval callback of the real-time ticker
realTimeTick ==
    /\ ~isOverrideMode /\ ~isDragging
    /\ \E now \in Times : currentMinutes' = now
    /\ UNCHANGED <<sunInfo, isDragging, isOverrideMode, today, probe>>

\* Sundial handleMouseDown / handleTouchStart, with App handleDragging(true)
\* and the v-model update of currentMinutes
handleMouseDown ==
    /\ isDragging' = TRUE
    /\ isOverrideMode' = TRUE
    /\ \E minutes \in Times : currentMinutes' = minutes
    /\ UNCHANGED <<sunInfo, today, probe>>

\* Sundial handleMouseMove / handleTouchMove
handleMouseMove ==
    /\ isDragging
    /\ \E minutes \in Times : currentMinutes' = minutes
    /\ UNCHANGED <<sunInfo, isDragging, isOverrideMode, today, probe>>

\* Mutant of handleMouseUp: the end of the drag also ends override mode
handleMouseUp_EndsOverride ==
    /\ isDragging' = FALSE
    /\ isOverrideMode' = FALSE
    /\ UNCHANGED <<sunInfo, currentMinutes, today, probe>>

\* Sundial handleMouseUp / handleTouchEnd, with App handleDragging(false)
handleMouseUp ==
    /\ isDragging' = FALSE
    /\ UNCHANGED <<sunInfo, currentMinutes, isOverrideMode, today, probe>>

\* Sundial handleCenterClick, with App handleReset
handleCenterClick ==
    /\ isOverrideMode
    /\ \E now \in Times : currentMinutes' = now
    /\ isOverrideMode' = FALSE
    /\ UNCHANGED <<sunInfo, isDragging, today, probe>>

\* The calendar date moves on: new Date() yields a later day
dateAdvances ==
    /\ \E date \in Todays : date.days > today.days /\ today' = date
    /\ UNCHANGED <<sunInfo, currentMinutes, isDragging, isOverrideMode, probe>>

Next ==
    \/ fetchSunInfo
    \/ fetchSunInfoThrows
    \/ realTimeTick
    \/ handleMouseDown
    \/ handleMouseMove
    \/ handleMouseUp
    \/ handleCenterClick
    \/ dateAdvances

Spec == Init /\ [][Next]_vars

----------------------------------------------------------------------------
(* The clock left to run, to the second: the provider's timestamps and the
   ticker's time of day have seconds, and nobody touches the sundial *)

\* Results whose timestamps have seconds: of a long day, of a short day, and
\* of a summer day on summer time, whose midnight falls early in the night
ClockResults ==
    { [ astronomical_twilight_begin |-> Timestamp(4, 16, 2),
        nautical_twilight_begin     |-> Timestamp(4, 53, 19),
        civil_twilight_begin        |-> Timestamp(5, 30, 47),
        sunrise                     |-> Timestamp(6, 0, 47),
        solar_noon                  |-> Timestamp(12, 13, 32),
        sunset                      |-> Timestamp(18, 26, 16),
        civil_twilight_end          |-> Timestamp(18, 56, 46),
        nautical_twilight_end       |-> Timestamp(19, 33, 43),
        astronomical_twilight_end   |-> Timestamp(20, 11, 22) ],
      [ astronomical_twilight_begin |-> Timestamp(6, 11, 9),
        nautical_twilight_begin     |-> Timestamp(6, 47, 51),
        civil_twilight_begin        |-> Timestamp(7, 25, 30),
        sunrise                     |-> Timestamp(7, 58, 3),
        solar_noon                  |-> Timestamp(12, 20, 57),
        sunset                      |-> Timestamp(16, 43, 41),
        civil_twilight_end          |-> Timestamp(17, 16, 14),
        nautical_twilight_end       |-> Timestamp(17, 53, 54),
        astronomical_twilight_end   |-> Timestamp(18, 30, 36) ],
      [ astronomical_twilight_begin |-> Timestamp(3, 54, 41),
        nautical_twilight_begin     |-> Timestamp(4, 46, 23),
        civil_twilight_begin        |-> Timestamp(5, 30, 5),
        sunrise                     |-> Timestamp(6, 3, 12),
        solar_noon                  |-> Timestamp(13, 30, 56),
        sunset                      |-> Timestamp(20, 58, 41),
        civil_twilight_end          |-> Timestamp(21, 31, 48),
        nautical_twilight_end       |-> Timestamp(22, 15, 30),
        astronomical_twilight_end   |-> Timestamp(23, 7, 12) ] }

\* What getSunInformation() resolves to, with the results to the second
ClockResponses == Responses \cup { [status |-> "OK", results |-> r] : r \in ClockResults }

\* Times of the clock: getTimeMinutes(h, m, s) on the grid and, to the second,
\* at the nine boundaries of each of the ClockResults and thirty minutes
\* before the first and after the last; of the long day also a second before
\* civil twilight begins and after it ends, at 20% of the morning, halfway
\* through the afternoon, at 60% of the evening twilight, and late in the
\* morning twilight
ClockTimes ==
    Times \cup
    { getTimeMinutes(t[1], t[2], t[3]) :
        t \in { <<3, 46, 2>>, <<4, 16, 2>>, <<4, 53, 19>>, <<5, 30, 46>>, <<5, 30, 47>>,
                <<5, 55, 23>>, <<6, 0, 47>>, <<7, 15, 20>>, <<12, 13, 32>>, <<15, 19, 54>>,
                <<18, 26, 16>>, <<18, 44, 34>>, <<18, 56, 46>>, <<18, 56, 47>>,
                <<19, 33, 43>>, <<20, 11, 22>>, <<20, 41, 22>>,
                <<5, 41, 9>>, <<6, 11, 9>>, <<6, 47, 51>>, <<7, 25, 30>>, <<7, 58, 3>>,
                <<12, 20, 57>>, <<16, 43, 41>>, <<17, 16, 14>>, <<17, 53, 54>>,
                <<18, 30, 36>>, <<19, 0, 36>>,
                <<3, 24, 41>>, <<3, 54, 41>>, <<4, 46, 23>>, <<5, 30, 5>>, <<6, 3, 12>>,
                <<13, 30, 56>>, <<20, 58, 41>>, <<21, 31, 48>>, <<22, 15, 30>>,
                <<23, 7, 12>>, <<23, 37, 12>> } }

InitClock ==
    /\ sunInfo = Null
    /\ currentMinutes \in ClockTimes
    /\ isDragging = FALSE
    /\ isOverrideMode = FALSE
    /\ today \in Todays
    /\ probe = NoProbe

\* fetchSunInfo with the results to the second among the responses
fetchSunInfoToTheSecond ==
    /\ \E data \in ClockResponses :
           sunInfo' = IF data.status = "OK" THEN data ELSE sunInfo
    /\ UNCHANGED <<currentMinutes, isDragging, isOverrideMode, today, probe>>

\* The setInterval callback of the real-time ticker, at any second
realTimeTickToTheSecond ==
    /\ ~isOverrideMode /\ ~isDragging
    /\ \E now \in ClockTimes : currentMinutes' = now
    /\ UNCHANGED <<sunInfo, isDragging, isOverrideMode, today, probe>>

NextClock ==
    \/ fetchSunInfoToTheSecond
    \/ fetchSunInfoThrows
    \/ realTimeTickToTheSecond
    \/ dateAdvances

SpecClock == InitClock /\ [][NextClock]_vars

----------------------------------------------------------------------------
(* luxToDarkness as a pure function: two lux inputs, then their darkness *)

InitDarkness ==
    LET LuxInputs ==
            LET \* 10^k for k in -3..5
                Pow10(k) ==
                    LET p == [i \in 0..5 |-> CASE i = 0 -> 1 [] i = 1 -> 10 [] i = 2 -> 100
                                               [] i = 3 -> 1000 [] i = 4 -> 10000 [] i = 5 -> 100000]
                    IN  IF k >= 0 THEN R(p[k]) ELSE Frac(1, p[0 - k])
            IN  { ToDecimal(Mul(R(m), Pow10(k))) : m \in 1..LuxMantissas, k \in -3..4 }
                \cup { DecOfInt(100000), ToDecimal(Frac(27, 100)) }
                \* a hundred-thousandth and a ten-thousandth above the night base
                \cup { ToDecimal(Frac(100001, 100000000)), ToDecimal(Frac(10001, 10000000)) }
                \cup { DecOfInt(0 - 1), DecOfInt(0), ToDecimal(Frac(1, 10000)), DecOfInt(500000) }
    IN  /\ sunInfo = Null
        /\ currentMinutes = R(0)
        /\ isDragging = FALSE
        /\ isOverrideMode = FALSE
        /\ today = ClockDates[1]
        /\ probe \in { [applied |-> FALSE, lux1 |-> a, lux2 |-> b,
                        darkness1 |-> DecOfInt(0), darkness2 |-> DecOfInt(0)] :
                           a \in LuxInputs, b \in LuxInputs }

applyLuxToDarkness ==
    /\ ~probe.applied
    /\ probe' = [probe EXCEPT !.applied = TRUE,
                              !.darkness1 = luxToDarkness(probe.lux1),
                              !.darkness2 = luxToDarkness(probe.lux2)]
    /\ UNCHANGED <<sunInfo, currentMinutes, isDragging, isOverrideMode, today>>

SpecDarkness == InitDarkness /\ [][applyLuxToDarkness]_vars

----------------------------------------------------------------------------
(* findNextEvent as a function of the schedule and the current time *)

InitNextEvent ==
    /\ sunInfo \in {Null} \cup { data \in Responses : data.status = "OK" }
    /\ currentMinutes \in Times
    /\ isDragging = FALSE
    /\ isOverrideMode = FALSE
    /\ today = ClockDates[1]
    /\ probe = [applied |-> FALSE, next |-> [event |-> "", minutesUntil |-> R(0)]]

applyFindNextEvent ==
    /\ ~probe.applied
    /\ probe' = [probe EXCEPT !.applied = TRUE, !.next = findNextEvent]
    /\ UNCHANGED <<sunInfo, currentMinutes, isDragging, isOverrideMode, today>>

SpecNextEvent == InitNextEvent /\ [][applyFindNextEvent]_vars

----------------------------------------------------------------------------
(* Angles of the sundial (useSunCalculations.ts, minutesToAngle and
   angleToMinutes). An angle is kept as its exact multiple of pi, and the
   sums, products and quotients of angles are taken without rounding. *)

\* Math.PI, the unit of the angles
MathPI == R(1)

\* Mutant of angleToMinutes: a negative remainder is not brought into [0, 2pi)
angleToMinutes_NoNormalize(angle) ==
    LET normalizedAngle == Mod(angle, Product(R(2), MathPI))
        shiftedAngle == Plus(normalizedAngle, Quotient(MathPI, R(2)))
        progress == Quotient(shiftedAngle, Product(R(2), MathPI))
    IN  Product(Mod(progress, R(1)), R(24 * 60))

\* Convert minutes since midnight to angle in radians
minutesToAngle(minutes) ==
    LET progress == Quotient(minutes, R(24 * 60))
    IN  Plus(Product(Product(progress, R(2)), MathPI), Neg(Quotient(MathPI, R(2))))

\* Convert angle in radians to minutes since midnight
angleToMinutes(angle) ==
    LET remainder == Mod(angle, Product(R(2), MathPI))
        normalizedAngle == IF Lt(remainder, R(0))
                           THEN Plus(remainder, Product(R(2), MathPI))
                           ELSE remainder
        shiftedAngle == Plus(normalizedAngle, Quotient(MathPI, R(2)))
        progress == Quotient(shiftedAngle, Product(R(2), MathPI))
    IN  Product(Mod(progress, R(1)), R(24 * 60))

InitAngles ==
    LET \* minutes of the day handed to minutesToAngle
        MinuteInputs ==
            { R(0), Frac(1, 60), R(1), R(359), R(360), R(361), R(720), R(1080),
              R(1439), Frac(86399, 60) }
        \* angles handed to angleToMinutes: multiples of pi/6 and of pi/4, also
        \* negative and beyond a full turn
        AngleInputs ==
            { Product(Frac(k, 6), MathPI) : k \in (0 - 12 * MaxTurns)..(12 * MaxTurns) }
            \cup { Product(Frac(k, 4), MathPI) : k \in (0 - 8 * MaxTurns)..(8 * MaxTurns) }
    IN  /\ sunInfo = Null
        /\ currentMinutes = R(0)
        /\ isDragging = FALSE
        /\ isOverrideMode = FALSE
        /\ today = ClockDates[1]
        /\ probe \in { [applied |-> FALSE, minutes |-> m, angle |-> a,
                        minutesBack |-> R(0), minutesOfAngle |-> R(0), angleBack |-> R(0)] :
                           m \in MinuteInputs, a \in AngleInputs }

\* both conversions and both round trips of the probed minutes and angle
applyAngleConversions ==
    /\ ~probe.applied
    /\ probe' = [probe EXCEPT
                    !.applied = TRUE,
                    !.minutesBack = angleToMinutes(minutesToAngle(probe.minutes)),
                    !.minutesOfAngle = angleToMinutes(probe.angle),
                    !.angleBack = minutesToAngle(angleToMinutes(probe.angle))]
    /\ UNCHANGED <<sunInfo, currentMinutes, isDragging, isOverrideMode, today>>

SpecAngles == InitAngles /\ [][applyAngleConversions]_vars

----------------------------------------------------------------------------
(* getMoonPhase as a function of the date: the phase of a date and of the
   date one synodic month later *)

\* local calendar days handed to getMoonPhase: before and after the
\* reference new moon, in January and February, on a leap day, past 2100,
\* and less than a synodic month before the clocks go forward (2026-03-29)
\* and back (2026-10-25) in Zurich
MoonDays ==
    { DaysFromCivil(1990, 2, 28), DaysFromCivil(1999, 12, 25), DaysFromCivil(2000, 1, 6),
      DaysFromCivil(2000, 1, 7), DaysFromCivil(2000, 2, 5), DaysFromCivil(2024, 2, 29),
      DaysFromCivil(2026, 3, 15), DaysFromCivil(2026, 10, 10),
      DaysFromCivil(2026, 10, 30), DaysFromCivil(2100, 3, 1) }

\* seconds of the day: 00:00:00, 12:44:02, 18:14:00, 19:14:00, 23:59:59
MoonSeconds == { 0, 45842, 65640, 69240, 86399 }

\* the date one synodic month later: new Date(date.getTime() + 29.53058867 *
\* 86400000), 29 days 12:44:02.861 (a Date keeps whole milliseconds)
SynodicMonthLater(date) == DatePlus(date, 29, 45842, 861)

InitMoon ==
    LET \* in the zone of UTC, in a zone always one hour ahead, and in Zurich
        MoonDates ==
            { DateOf(d, t, ms, zone) : d \in MoonDays, t \in MoonSeconds, ms \in {0, 500},
                                       zone \in {FixedZone(0), FixedZone(60), Zurich} }
    IN  /\ sunInfo = Null
        /\ currentMinutes = R(0)
        /\ isDragging = FALSE
        /\ isOverrideMode = FALSE
        /\ today = ClockDates[1]
        /\ probe \in { [applied |-> FALSE, date |-> d,
                        phase |-> DecOfInt(0), phaseLater |-> DecOfInt(0)] : d \in MoonDates }

\* getMoonPhase of the probed date and of the date one synodic month later
applyGetMoonPhase ==
    /\ ~probe.applied
    /\ probe' = [probe EXCEPT
                    !.applied = TRUE,
                    !.phase = getMoonPhase(probe.date),
                    !.phaseLater = getMoonPhase(SynodicMonthLater(probe.date))]
    /\ UNCHANGED <<sunInfo, currentMinutes, isDragging, isOverrideMode, today>>

SpecMoon == InitMoon /\ [][applyGetMoonPhase]_vars

----------------------------------------------------------------------------
(* Moon illumination and moon lux as functions of the phase: two phases,
   then their illumination and lux *)

InitMoonLight ==
    LET \* the phases probed: every twentieth of the cycle, and the phases of the
        \* probed dates (whole seconds, zone of UTC)
        CyclePhases == { [ofDate |-> FALSE, twentieths |-> k, date |-> DateOf(0, 0, 0, FixedZone(0))] : k \in 0..19 }
        DatePhases == { [ofDate |-> TRUE, twentieths |-> 0, date |-> DateOf(d, t, 0, FixedZone(0))] :
                            d \in MoonDays, t \in MoonSeconds }
        none == DecOfInt(0)
    IN  /\ sunInfo = Null
        /\ currentMinutes = R(0)
        /\ isDragging = FALSE
        /\ isOverrideMode = FALSE
        /\ today = ClockDates[1]
        /\ \E phases \in {CyclePhases, DatePhases} :
               probe \in { [applied |-> FALSE, of1 |-> p, of2 |-> q, phase1 |-> none, phase2 |-> none,
                            illumination1 |-> none, illumination2 |-> none,
                            lux1 |-> none, lux2 |-> none] : p \in phases, q \in phases }

\* illumination and moon lux of the two probed phases
applyMoonLight ==
    /\ ~probe.applied
    /\ LET \* const name = value: the value is computed once and then named
           Bind(value, Body(_)) == CHOOSE result \in { Body(name) : name \in {value} } : TRUE
           PhaseOf(of) == IF of.ofDate THEN getMoonPhase(of.date)
                          ELSE ToDecimal(Frac(of.twentieths, 20))
           Outcome(of) ==
               Bind(PhaseOf(of), LAMBDA phase :
               Bind(illuminationOfPhase(phase), LAMBDA illumination :
                   [phase |-> phase, illumination |-> illumination,
                    lux |-> moonIlluminationToLux(illumination)]))
       IN  \E outcome \in {[i \in 1..2 |-> Outcome(IF i = 1 THEN probe.of1 ELSE probe.of2)]} :
               probe' = [probe EXCEPT
                            !.applied = TRUE,
                            !.phase1 = outcome[1].phase,
                            !.phase2 = outcome[2].phase,
                            !.illumination1 = outcome[1].illumination,
                            !.illumination2 = outcome[2].illumination,
                            !.lux1 = outcome[1].lux,
                            !.lux2 = outcome[2].lux]
    /\ UNCHANGED <<sunInfo, currentMinutes, isDragging, isOverrideMode, today>>

SpecMoonLight == InitMoonLight /\ [][applyMoonLight]_vars

----------------------------------------------------------------------------
(* Midnight under a moon: a schedule to the second and two phases of the
   cycle, then the lux calculateLux gives at 00:00 of that schedule under the
   moon of each phase in turn, and its darkness *)

InitMoonNight ==
    LET none == DecOfInt(0)
    IN  /\ sunInfo \in { [status |-> "OK", results |-> r] : r \in ClockResults }
        /\ currentMinutes = R(0)
        /\ isDragging = FALSE
        /\ isOverrideMode = FALSE
        /\ today = ClockDates[1]
        /\ probe \in { [applied |-> FALSE, turn |-> 1, twentieths1 |-> p, twentieths2 |-> q,
                        illumination1 |-> none, illumination2 |-> none,
                        lux1 |-> none, lux2 |-> none, night1 |-> none, night2 |-> none,
                        darkness1 |-> none, darkness2 |-> none] : p \in 0..19, q \in 0..19 }

\* the moon lux of the probed phase whose turn it is, and what calculateLux
\* returns at currentMinutes (00:00) of the schedule under it, with its
\* darkness: the whole of calculateLux after the moon lux, its branches chosen
\* by the time and the schedule
applyMoonNight ==
    /\ ~probe.applied
    /\ \E illumination \in {illuminationOfPhase(ToDecimal(Frac(
               IF probe.turn = 1 THEN probe.twentieths1 ELSE probe.twentieths2, 20)))} :
       \E lux \in {moonIlluminationToLux(illumination)} :
       \E night \in {LuxUnder(currentMinutes, sunInfo, lux)} :
       \E darkness \in {luxToDarkness(night)} :
           probe' = IF probe.turn = 1
                    THEN [probe EXCEPT !.turn = 2,
                                       !.illumination1 = illumination, !.lux1 = lux,
                                       !.night1 = night, !.darkness1 = darkness]
                    ELSE [probe EXCEPT !.applied = TRUE,
                                       !.illumination2 = illumination, !.lux2 = lux,
                                       !.night2 = night, !.darkness2 = darkness]
    /\ UNCHANGED <<sunInfo, currentMinutes, isDragging, isOverrideMode, today>>

SpecMoonNight == InitMoonNight /\ [][applyMoonNight]_vars

----------------------------------------------------------------------------
(* Lightness of background and text (useColorCalculations.ts, the computed
   bgLightness, bgLightnessDarker and textLightness), each as a function of
   the value it reads *)

\* Mutant of bgLightness: the inverse of the darkness, not clamped
bgLightness_NoClamp(dark) == Sub(R(100), dark)

\* Lightness: inverse of darkValue, clamped to 5%-95%
bgLightness(dark) ==
    LET lightness == Sub(R(100), dark)
    IN  MathMax(R(5), MathMin(R(95), lightness))

\* darker variant for the gradient
bgLightnessDarker(lightness) == MathMax(R(5), MathMin(R(95), Sub(lightness, R(10))))

\* Mutant of textLightness: the inverse lightness, not pushed to the extremes
textLightness_Inverse(bgLight) == Sub(R(100), bgLight)

\* Text lightness: inverse of background lightness, pushed towards extremes
textLightness(bgLight) ==
    LET inverseLightness == Sub(R(100), bgLight)
    IN  IF Lt(bgLight, R(50))
        THEN MathMax(R(85), MathMin(R(95), Add(inverseLightness, R(20))))
        ELSE MathMin(R(15), MathMax(R(5), Sub(inverseLightness, R(20))))

InitColors ==
    LET \* darkness values handed to the colour computation
        DarknessInputs == { Frac(k, LightnessSteps) : k \in 0..(100 * LightnessSteps) }
    IN  /\ sunInfo = Null
        /\ currentMinutes = R(0)
        /\ isDragging = FALSE
        /\ isOverrideMode = FALSE
        /\ today = ClockDates[1]
        /\ probe \in { [applied |-> FALSE, dark |-> d, lightness |-> R(0),
                        lightnessDarker |-> R(0), text |-> R(0)] : d \in DarknessInputs }

\* the three lightness values of the probed darkness
applyLightness ==
    /\ ~probe.applied
    /\ probe' = [probe EXCEPT
                    !.applied = TRUE,
                    !.lightness = bgLightness(probe.dark),
                    !.lightnessDarker = bgLightnessDarker(bgLightness(probe.dark)),
                    !.text = textLightness(bgLightness(probe.dark))]
    /\ UNCHANGED <<sunInfo, currentMinutes, isDragging, isOverrideMode, today>>

SpecColors == InitColors /\ [][applyLightness]_vars

----------------------------------------------------------------------------
(* Durations as text (useSunCalculations.ts, formatDuration) *)

\* String(n) of an integer, as a template literal renders it
RECURSIVE IntToString(_)
IntToString(n) ==
    LET DecimalDigits == <<"0", "1", "2", "3", "4", "5", "6", "7", "8", "9">>
    IN  IF n < 0 THEN "-" \o IntToString(0 - n)
        ELSE IF n < 10 THEN DecimalDigits[n + 1]
        ELSE IntToString(n \div 10) \o DecimalDigits[(n % 10) + 1]

\* Format duration in minutes to human-readable string
formatDuration(minutes) ==
    IF IsNaN(minutes) THEN "NaNs"
    ELSE IF ToDouble(minutes).neg THEN "--"
    ELSE LET x == ToDouble(minutes)
             hours == DoubleFloor(DoubleDiv(x, 60))
             mins == DoubleFloor(DoubleMod(x, 60))
             secs == DoubleFloor(DoubleMul(DoubleMod(x, 1), 60))
         IN  IF hours > 0
             THEN IntToString(hours) \o "h " \o IntToString(mins) \o "m " \o IntToString(secs) \o "s"
             ELSE IF mins > 0
             THEN IntToString(mins) \o "m " \o IntToString(secs) \o "s"
             ELSE IntToString(secs) \o "s"

InitFormat ==
    LET \* durations handed to formatDuration: whole seconds up to a day and a
        \* half, the time left until an event at 06:00, half seconds, and
        \* negative ones
        DurationInputs ==
            { getTimeMinutes(h, m, sec) : h \in {0, 1, 2, 24, 36}, m \in {0, 5, 59}, sec \in {0, 1, 30, 59} }
            \cup { getTimeMinutes(0, 1, 13) }
            \cup { Sub(R(360), getTimeMinutes(h, m, sec)) : h \in {0, 5}, m \in {1, 59}, sec \in {2, 3, 13, 17} }
            \cup { Frac(1, 120), Frac(119, 120), Frac(7201, 120) }
            \cup { R(0 - 5), Frac(0 - 1, 60), R(0 - 60), R(0 - 1440), Frac(0 - 1, 120) }
    IN  /\ sunInfo = Null
        /\ currentMinutes = R(0)
        /\ isDragging = FALSE
        /\ isOverrideMode = FALSE
        /\ today = ClockDates[1]
        /\ probe \in { [applied |-> FALSE, minutes |-> m, text |-> ""] : m \in DurationInputs }

applyFormatDuration ==
    /\ ~probe.applied
    /\ probe' = [probe EXCEPT !.applied = TRUE, !.text = formatDuration(probe.minutes)]
    /\ UNCHANGED <<sunInfo, currentMinutes, isDragging, isOverrideMode, today>>

SpecFormat == InitFormat /\ [][applyFormatDuration]_vars

----------------------------------------------------------------------------
(* Text contrast with hysteresis (unnamed/part_004, textContrast and
   textContrastComputed of the App that computes the contrast itself) *)

\* one evaluation of textContrastComputed: the smoothed value, which is both
\* stored in textContrast and returned
textContrastComputed(dark, previous) ==
    LET thresholdUp == R(42)
        thresholdDown == R(58)
        extremeContrast == R(75)
        newContrast ==
            IF Lt(dark, thresholdDown) /\ (Lt(previous, R(50)) \/ Lt(dark, thresholdUp))
            THEN MathMin(R(100), MathMax(Add(dark, extremeContrast), R(90)))
            ELSE IF Gt(dark, thresholdUp) /\ (Geq(previous, R(50)) \/ Gt(dark, thresholdDown))
            THEN MathMax(R(0), MathMin(Sub(dark, extremeContrast), R(10)))
            ELSE previous
        smoothingFactor == IF Gt(MathAbs(Sub(newContrast, previous)), R(30))
                           THEN Frac(1, 2) ELSE Frac(1, 5)
    IN  Add(previous, Mul(Sub(newContrast, previous), smoothingFactor))

\* values darkValue takes: both extremes, both thresholds, the zone between
ContrastDarkness ==
    { R(0), R(20), R(41), R(42), R(43), R(50), R(57), R(58), R(59), R(80), R(100) }

\* const textContrast = ref(50), before the first evaluation
InitContrast ==
    /\ sunInfo = Null
    /\ currentMinutes = R(0)
    /\ isDragging = FALSE
    /\ isOverrideMode = FALSE
    /\ today = ClockDates[1]
    /\ probe \in { [dark |-> d, textContrast |-> R(50), evaluations |-> 0] :
                       d \in ContrastDarkness }

\* the computed is evaluated: the accumulator takes the smoothed value
evaluateTextContrast ==
    /\ probe.evaluations < MaxEvaluations
    /\ probe' = [probe EXCEPT
                    !.textContrast = textContrastComputed(probe.dark, probe.textContrast),
                    !.evaluations = probe.evaluations + 1]
    /\ UNCHANGED <<sunInfo, currentMinutes, isDragging, isOverrideMode, today>>

\* darkValue changes between two evaluations
darkValueChanges ==
    /\ \E d \in ContrastDarkness : probe' = [probe EXCEPT !.dark = d]
    /\ UNCHANGED <<sunInfo, currentMinutes, isDragging, isOverrideMode, today>>

NextContrast == evaluateTextContrast \/ darkValueChanges

SpecContrast == InitContrast /\ [][NextContrast]_vars

----------------------------------------------------------------------------
(* The real-time ticker (unnamed/part_004:325-350): the watcher of
   [isOverrideMode, isDragging] and the interval it starts and stops.
   probe.realTimeInterval tells whether the handle is set (not null),
   probe.timers counts the intervals that are live in the browser,
   probe.seen is the pair of values the watcher last ran with, and
   probe.ticks flips whenever a ticker callback writes currentMinutes.
   The watcher runs some time after the watched pair has changed, and a live
   interval fires at any time; the handlers of the sundial are those of Spec,
   which leave the handle alone. *)

\* after setup: the immediate watcher has run with [false, false]
InitTicker ==
    /\ sunInfo = Null
    /\ currentMinutes \in Times
    /\ isDragging = FALSE
    /\ isOverrideMode = FALSE
    /\ today \in Todays
    /\ probe = [realTimeInterval |-> TRUE, timers |-> 1,
                seen |-> <<FALSE, FALSE>>, ticks |-> 0]

\* Mutant of watchOverrideAndDragging: the handle is dropped without
\* clearInterval
watchOverrideAndDragging_NoClear ==
    /\ probe.seen # <<isOverrideMode, isDragging>>
    /\ probe' =
         IF ~isOverrideMode /\ ~isDragging
         THEN IF ~probe.realTimeInterval
              THEN [probe EXCEPT !.realTimeInterval = TRUE, !.timers = @ + 1,
                                 !.seen = <<isOverrideMode, isDragging>>]
              ELSE [probe EXCEPT !.seen = <<isOverrideMode, isDragging>>]
         ELSE [probe EXCEPT !.realTimeInterval = FALSE,
                            !.seen = <<isOverrideMode, isDragging>>]
    /\ UNCHANGED <<sunInfo, currentMinutes, isDragging, isOverrideMode, today>>

\* watch([isOverrideMode, isDragging], ...): start the interval when neither
\* holds and there is none, stop it otherwise
watchOverrideAndDragging ==
    /\ probe.seen # <<isOverrideMode, isDragging>>
    /\ probe' =
         IF ~isOverrideMode /\ ~isDragging
         THEN IF ~probe.realTimeInterval
              THEN [probe EXCEPT !.realTimeInterval = TRUE, !.timers = @ + 1,
                                 !.seen = <<isOverrideMode, isDragging>>]
              ELSE [probe EXCEPT !.seen = <<isOverrideMode, isDragging>>]
         ELSE IF probe.realTimeInterval
              THEN [probe EXCEPT !.realTimeInterval = FALSE, !.timers = @ - 1,
                                 !.seen = <<isOverrideMode, isDragging>>]
              ELSE [probe EXCEPT !.seen = <<isOverrideMode, isDragging>>]
    /\ UNCHANGED <<sunInfo, currentMinutes, isDragging, isOverrideMode, today>>

\* Mutant of realTimeIntervalFires: the callback without its double-check
realTimeIntervalFires_NoDoubleCheck ==
    /\ probe.timers > 0
    /\ \E now \in Times : currentMinutes' = now
    /\ probe' = [probe EXCEPT !.ticks = 1 - @]
    /\ UNCHANGED <<sunInfo, isDragging, isOverrideMode, today>>

\* the callback of a live interval: it writes the wall-clock time unless
\* override mode or a drag is on
realTimeIntervalFires ==
    /\ probe.timers > 0
    /\ IF ~isOverrideMode /\ ~isDragging
       THEN /\ \E now \in Times : currentMinutes' = now
            /\ probe' = [probe EXCEPT !.ticks = 1 - @]
       ELSE UNCHANGED <<currentMinutes, probe>>
    /\ UNCHANGED <<sunInfo, isDragging, isOverrideMode, today>>

NextTicker ==
    \/ handleMouseDown
    \/ handleMouseMove
    \/ handleMouseUp
    \/ handleCenterClick
    \/ watchOverrideAndDragging
    \/ realTimeIntervalFires

SpecTicker == InitTicker /\ [][NextTicker]_vars

\* the watcher runs once the watched pair has changed, and a live interval
\* keeps firing
SpecTickerFair ==
    SpecTicker /\ WF_vars(watchOverrideAndDragging) /\ WF_vars(realTimeIntervalFires)

----------------------------------------------------------------------------
(* Claims *)

InRange(x, lo, hi) == Geq(x, lo) /\ Leq(x, hi)

\* currentMinutes lies in [from, to)
Within(from, to) == Geq(currentMinutes, from) /\ Lt(currentMinutes, to)

\* the schedule is one whose boundaries fall between the minutes
ToTheSecond == sunInfo # Null /\ sunInfo.results \in ClockResults

\* two hues are the same point of the colour circle
SameHue(a, b) == Mod(a, R(360)) = Mod(b, R(360))

\* midnight lies in the deep night of the schedule
MidnightIsDeepNight(info) ==
    Gt(Sub(BoundariesOf(info).astroTwilightBegin, R(TWILIGHT_TRANSITION)), R(0))

\* C1: hue is continuous at every segment boundary of a valid schedule: when
\* the time is at civilTwilightBegin, sunrise, solarNoon or sunset the hue
\* equals the value the preceding segment approaches at its end (its formula at
\* progress 1), and the value the sunset segment reaches at civilTwilightEnd
\* equals the value the night starts from.
C1_HueContinuousAtBoundaries ==
    IsValidSchedule(sunInfo) =>
        LET b == BoundariesOf(sunInfo)
        IN  /\ currentMinutes = b.civilTwilightBegin => SameHue(bgHue, hueNight(R(1)))
            /\ currentMinutes = b.sunrise => SameHue(bgHue, hueCivilDawn(R(1)))
            /\ currentMinutes = b.solarNoon => SameHue(bgHue, hueMorning(R(1)))
            /\ currentMinutes = b.sunset => SameHue(bgHue, hueAfternoon(R(1)))
            /\ currentMinutes = b.civilTwilightEnd => SameHue(bgHue, hueNight(R(0)))

\* C2: for every time and every valid schedule the background hue lies in
\* [0, 360), also on the two segments that wrap with the modulo.
C2_HueInRange ==
    IsValidSchedule(sunInfo) => Geq(bgHue, R(0)) /\ Lt(bgHue, R(360))

\* the modulo of the civil-twilight segment has wrapped 220 + 200*p past 360,
\* under a schedule to the second
C2_Witness ==
    /\ IsValidSchedule(sunInfo)
    /\ ToTheSecond
    /\ Within(BoundariesOf(sunInfo).civilTwilightBegin, BoundariesOf(sunInfo).sunrise)
    /\ Lt(bgHue, R(60))

\* C3: for every time and every valid schedule the background hue is never in
\* the green band from 90 to 180 degrees.
C3_HueAvoidsGreen ==
    IsValidSchedule(sunInfo) => ~InRange(bgHue, R(90), R(180))

\* after sunset the hue is on its way back from red to blue through magenta
C3_Witness ==
    /\ IsValidSchedule(sunInfo)
    /\ ToTheSecond
    /\ Gt(currentMinutes, BoundariesOf(sunInfo).sunset)
    /\ Lt(currentMinutes, BoundariesOf(sunInfo).civilTwilightEnd)
    /\ Gt(bgHue, R(240)) /\ Lt(bgHue, R(360))

\* C4: for every valid schedule calculateHue at minutes = 0 equals
\* calculateHue at minutes = 1440.
C4_HueWrapsAtMidnight ==
    IsValidSchedule(sunInfo) => HueAt(R(0), sunInfo) = HueAt(dayLength, sunInfo)

\* midnight shown under a schedule whose night has a changing hue around it
C4_Witness ==
    /\ IsValidSchedule(sunInfo)
    /\ ToTheSecond
    /\ currentMinutes = R(0)
    /\ bgHue = HueAt(dayLength, sunInfo)
    /\ bgHue # R(245)

\* darkness values handed to calculateSaturation besides the current one
DarkValues == { R(0), Frac(1, 100), R(50), Frac(9999, 100), R(100) }

\* C5: for every time, every valid schedule and every darkness in [0, 100]
\* the background saturation lies in [8, 20]; so does the default without a
\* schedule.
C5_SaturationInRange ==
    /\ sunInfo = Null \/ IsValidSchedule(sunInfo) => InRange(bgSaturation, R(8), R(20))
    /\ IsValidSchedule(sunInfo) =>
           \A dark \in DarkValues :
               InRange(SaturationAt(currentMinutes, sunInfo, dark), R(8), R(20))

\* a night whose saturation is raised by the darkness to its top value 12
C5_Witness ==
    /\ IsValidSchedule(sunInfo)
    /\ ToTheSecond
    /\ Lt(currentMinutes, BoundariesOf(sunInfo).civilTwilightBegin)
    /\ darkValue = R(100)
    /\ bgSaturation = R(12)

DecInRange(x, lo, hi) == ~DecIsNaN(x) /\ ~DecLt(x, lo) /\ ~DecLt(hi, x)

\* C6: luxToDarkness is strictly decreasing on [0.001, 100000] and its
\* result lies in [0, 100] for every lux, also outside that range. Violated
\* just above the night base, where the darkness stays 100.
C6_DarknessMonotone ==
    probe.applied =>
        /\ DecInRange(probe.darkness1, DecOfInt(0), DecOfInt(100))
        /\ DecInRange(probe.darkness2, DecOfInt(0), DecOfInt(100))
        /\ ( /\ ~DecLt(probe.lux1, ToDecimal(Frac(1, 1000)))
             /\ DecLt(probe.lux1, probe.lux2)
             /\ ~DecLt(DecOfInt(100000), probe.lux2) ) => DecLt(probe.darkness2, probe.darkness1)

\* C7: at solar noon of any valid schedule the lux is 100000 and the
\* darkness is 0.
C7_NoonAnchor ==
    IsValidSchedule(sunInfo) /\ currentMinutes = BoundariesOf(sunInfo).solarNoon =>
        currentLux = DecOfInt(100000) /\ calculateDarkValue = DecOfInt(0)

C7_Witness ==
    /\ IsValidSchedule(sunInfo)
    /\ ToTheSecond
    /\ currentMinutes = BoundariesOf(sunInfo).solarNoon
    /\ currentLux = ToDecimal(NOON_DIRECT_SUN)
    /\ darkValue = R(0)

\* the moon illumination calculateLux works with: the one of today's date at
\* the time of day shown
moonIllumination == getMoonIllumination(dateWithTime(today, currentMinutes))

\* C8: at midnight, in the deep night of a valid schedule, with zero moon
\* illumination the lux is exactly 0.001 and the darkness exactly 100.
C8_NewMoonMidnight ==
    ( /\ IsValidSchedule(sunInfo)
      /\ MidnightIsDeepNight(sunInfo)
      /\ currentMinutes = R(0)
      /\ moonIllumination = DecOfInt(0) ) =>
        currentLux = ToDecimal(Frac(1, 1000)) /\ calculateDarkValue = DecOfInt(100)

C8_Witness ==
    /\ IsValidSchedule(sunInfo)
    /\ ToTheSecond
    /\ MidnightIsDeepNight(sunInfo)
    /\ currentMinutes = R(0)
    /\ today = ClockDates[1]
    /\ moonIllumination = DecOfInt(0)
    /\ currentLux = ToDecimal(NIGHT_BASE)
    /\ calculateDarkValue = DecOfInt(100)

\* a full moon next to a new moon
FullMoonMidnight ==
    /\ probe.applied
    /\ probe.illumination1 = DecOfInt(100)
    /\ probe.illumination2 = DecOfInt(0)

DarkerThanNewMoonMidnight == DecLt(probe.darkness1, probe.darkness2)

MoonTwentieths == { 0, 5, 10 }

\* C10: for every time, every valid schedule and every moon illumination the
\* lux lies in [0.001, 500000] and is strictly positive: under the moon of
\* today's date, and under a new, a half and a full moon.
C10_LuxInRange ==
    IsValidSchedule(sunInfo) =>
        /\ DecInRange(currentLux, ToDecimal(Frac(1, 1000)), DecOfInt(500000))
        /\ DecLt(DecOfInt(0), currentLux)
        /\ \A twentieths \in MoonTwentieths :
               LET moonLux == moonIlluminationToLux(illuminationOfPhase(ToDecimal(Frac(twentieths, 20))))
                   lux == LuxUnder(currentMinutes, sunInfo, moonLux)
               IN  /\ DecInRange(lux, ToDecimal(Frac(1, 1000)), DecOfInt(500000))
                   /\ DecLt(DecOfInt(0), lux)

\* inside the transition window before astronomical twilight, under a moon
\* nearly full: between the twilight anchor and the night lux
C10_Witness ==
    /\ IsValidSchedule(sunInfo)
    /\ ToTheSecond
    /\ Lt(currentMinutes, BoundariesOf(sunInfo).astroTwilightBegin)
    /\ DecLt(DecOfInt(90), moonIllumination)
    /\ DecLt(ToDecimal(ASTRONOMICAL_TWILIGHT), currentLux)
    /\ DecLt(currentLux, moonIlluminationToLux(moonIllumination))

\* the time is at a boundary or inner anchor of the schedule
At(minutes) == ~IsNaN(minutes) /\ Cmp(currentMinutes, minutes) = 0

\* C11: for every valid schedule calculateLux takes the documented anchor at
\* each of the nine boundaries, at 20% of the morning and at the midpoint of
\* the afternoon, and the value each segment approaches at its end (its
\* formula at progress 1) is the anchor the next segment starts from.
C11_LuxAnchorsAndJoins ==
    IsValidSchedule(sunInfo) =>
        LET b == BoundariesOf(sunInfo)
            moonLux == moonIlluminationToLux(moonIllumination)
            Is(x, y) == x = ToDecimal(y)
        IN  /\ At(b.astroTwilightBegin) => currentLux = ToDecimal(Frac(1, 10))
            /\ luxPreDawn(moonLux, R(1)) = ToDecimal(Frac(1, 10))
            /\ At(b.nauticalTwilightBegin) => currentLux = ToDecimal(R(1))
            /\ Is(luxAstroDawn(R(1)), R(1))
            /\ At(b.civilTwilightBegin) => currentLux = ToDecimal(R(10))
            /\ Is(luxNauticalDawn(R(1)), R(10))
            /\ At(b.sunrise) => currentLux = ToDecimal(R(100))
            /\ Is(luxCivilDawn(R(1)), R(100))
            /\ At(lerp(b.sunrise, b.solarNoon, Frac(1, 5))) => currentLux = ToDecimal(R(1000))
            /\ Is(luxMorning(Frac(1, 5)), R(1000))
            /\ At(b.solarNoon) => currentLux = ToDecimal(R(100000))
            /\ Is(luxMorning(R(1)), R(100000))
            /\ At(lerp(b.solarNoon, b.sunset, Frac(1, 2))) => currentLux = ToDecimal(R(95000))
            /\ Is(luxAfternoon(Frac(1, 2)), R(95000))
            /\ At(b.sunset) => currentLux = ToDecimal(R(100))
            /\ Is(luxAfternoon(R(1)), R(100))
            /\ At(b.civilTwilightEnd) => currentLux = ToDecimal(R(10))
            /\ luxCivilDusk(R(1)) = luxNauticalDusk(R(0))
            /\ At(b.nauticalTwilightEnd) => currentLux = ToDecimal(R(1))
            /\ luxNauticalDusk(R(1)) = luxAstroDusk(R(0))
            /\ At(b.astroTwilightEnd) => currentLux = ToDecimal(Frac(1, 10))
            /\ luxAstroDusk(R(1)) = luxPostDusk(moonLux, R(0))

\* the time is at sunset: the afternoon has come down to the value the
\* sunset segment starts from
C11_Witness ==
    /\ IsValidSchedule(sunInfo)
    /\ ToTheSecond
    /\ currentMinutes = BoundariesOf(sunInfo).sunset
    /\ currentLux = ToDecimal(SUNRISE_SUNSET)
    /\ luxAfternoon(R(1)) = currentLux

\* C12 as claimed: at the outer edge of each 30-minute transition window
\* (30 minutes before astronomical twilight begin, 30 minutes after
\* astronomical twilight end) the lux equals the deep-night value, the moon
\* lux, with no offset.
C12_TransitionEdgeIsMoonLux ==
    IsValidSchedule(sunInfo) =>
        LET b == BoundariesOf(sunInfo)
        IN  \/ currentMinutes = Sub(b.astroTwilightBegin, R(TWILIGHT_TRANSITION))
            \/ currentMinutes = Add(b.astroTwilightEnd, R(TWILIGHT_TRANSITION))
            => currentLux = moonIlluminationToLux(moonIllumination)

\* C13 as claimed: for every valid schedule the darkness of App.vue's
\* calculateDarkValue at the end of the day (the post-dusk branch at minutes
\* 1440) equals its darkness at 00:00 (the pre-dawn branch at minutes 0).
C13_DarknessWrapsAtMidnight ==
    IsValidSchedule(sunInfo) =>
        calculateDarkValueOfApp(dayLength, sunInfo) = calculateDarkValueOfApp(R(0), sunInfo)

\* the complete payloads of the responses with status OK
PayloadsOK == { data \in Responses : data.status = "OK" }

\* C14: sunInfo is null until the first OK response, and every step either
\* leaves sunInfo as it is or replaces it by the complete payload of one
\* response with status OK; so a fetch that throws or returns another status
\* leaves the previous schedule in place.
C14_ScheduleReplacedWhole ==
    [][ /\ sunInfo = Null \/ sunInfo \in PayloadsOK
        /\ sunInfo' = sunInfo \/ sunInfo' \in PayloadsOK ]_vars

\* the schedule of an OK response is in place
C14_Witness ==
    /\ sunInfo \in PayloadsOK
    /\ IsValidSchedule(sunInfo)
    /\ BoundariesOf(sunInfo).solarNoon = R(810)

\* every timestamp of the payload parses
AllParsed(info) ==
    LET b == BoundariesOf(info)
    IN  \A k \in DOMAIN b : ~IsNaN(b[k])

\* C15 as claimed: a schedule whose nine boundaries are not strictly
\* increasing within the day is never accepted: whenever a schedule is in
\* use, it is a valid one.
C15_OutOfOrderNeverAccepted ==
    sunInfo # Null /\ AllParsed(sunInfo) => IsValidSchedule(sunInfo)

\* the schedule in use has sunset and civil twilight end at the same minute
SunsetSegmentIsEmpty ==
    /\ sunInfo # Null
    /\ AllParsed(sunInfo)
    /\ BoundariesOf(sunInfo).sunset = BoundariesOf(sunInfo).civilTwilightEnd

\* C16 as claimed: with a zero-length segment (here sunset = civilTwilightEnd)
\* the lux, hue and saturation interpolators return a number at every time,
\* and at the coinciding boundary the end value of the segment: lux 10, hue
\* 240, saturation 15.
C16_ZeroLengthSegmentSteps ==
    SunsetSegmentIsEmpty =>
        /\ ~DecIsNaN(currentLux) /\ ~IsNaN(bgHue) /\ ~IsNaN(bgSaturation)
        /\ currentMinutes = BoundariesOf(sunInfo).sunset =>
               /\ currentLux = luxCivilDusk(R(1))
               /\ bgHue = hueDusk(R(1))
               /\ bgSaturation = R(15)

\* C17 as claimed: without a schedule (sunInfo is null) the computed values
\* are the defaults hue 240, saturation 10, darkness 50 and lux 0.
C17_NullScheduleDefaults ==
    sunInfo = Null =>
        /\ bgHue = R(240)
        /\ bgSaturation = R(10)
        /\ calculateDarkValue = DecOfInt(50)
        /\ currentLux = DecOfInt(0)

\* C18 as claimed: timeToMinutes never returns a NaN: for every timestamp of
\* a payload in use its result is a number in [0, 1440).
C18_TimeToMinutesNeverNaN ==
    sunInfo # Null =>
        \A k \in DOMAIN sunInfo.results :
            LET minutes == timeToMinutes(sunInfo.results[k])
            IN  /\ ~IsNaN(minutes)
                /\ Geq(minutes, R(0)) /\ Lt(minutes, dayLength)

\* C19: angleToMinutes(minutesToAngle(m)) = m for every m in [0, 1440), and
\* for every angle, also negative or beyond a full turn, angleToMinutes
\* yields minutes in [0, 1440) whose minutesToAngle differs from the angle by
\* a whole number of turns.
C19_AngleRoundTrip ==
    probe.applied =>
        /\ probe.minutesBack = probe.minutes
        /\ Geq(probe.minutesOfAngle, R(0)) /\ Lt(probe.minutesOfAngle, dayLength)
        /\ Mod(Plus(probe.angleBack, Neg(probe.angle)), Mul(R(2), MathPI)) = R(0)

\* minutes before 06:00, whose angle is negative, and an angle more than a
\* turn below zero have made the round trip
C19_Witness ==
    /\ probe.applied
    /\ probe.minutes = R(359)
    /\ probe.minutesBack = R(359)
    /\ probe.angle = Mul(Frac(0 - 11, 4), MathPI)
    /\ probe.minutesOfAngle = R(1260)

\* a phase lies in [0, 1)
PhaseInRange(phase) == ~DecLt(phase, DecOfInt(0)) /\ DecLt(phase, DecOfInt(1))

\* the distance of two phases as points of the cycle, in units of the cycle
CycleDistance(p, q) ==
    LET forward == IF DecLt(p, q) THEN DecSub(q, p) ELSE DecSub(p, q)
    IN  DecMin(forward, DecSub(DecOfInt(1), forward))

\* one second, in units of the cycle
SecondOfCycle == DecOver(ToDecimal(Frac(1, 86400)), synodicMonth)

\* C20: for every date the phase lies in [0, 1), also before the reference
\* new moon, and the phase is periodic: the phase one synodic month later is
\* the phase of the date, read as the same point of the cycle to within one
\* second of the cycle (about 4e-7 of a cycle). Violated where the clocks of
\* the zone change between the two dates.
C20_MoonPhasePeriodic ==
    probe.applied =>
        /\ PhaseInRange(probe.phase)
        /\ PhaseInRange(probe.phaseLater)
        /\ DecLt(CycleDistance(probe.phase, probe.phaseLater), SecondOfCycle)

\* x <= y, neither a NaN
DecLeq(x, y) == ~DecIsNaN(x) /\ ~DecIsNaN(y) /\ ~DecLt(y, x)

\* C21: moon illumination is the triangular function of the phase, 200 * phase
\* below one half and 200 * (1 - phase) from one half on: exactly 0 at phase
\* 0, exactly 100 at phase 0.5, and within [0, 100] for every phase in [0, 1).
C21_IlluminationTriangular ==
    probe.applied =>
        LET phase == probe.phase1
            illumination == probe.illumination1
            half == ToDecimal(Frac(1, 2))
        IN  /\ DecLt(phase, half)
                  => illumination = DecMul(DecOfInt(200), phase)
            /\ DecLeq(half, phase)
                  => illumination = DecMul(DecOfInt(200), DecSub(DecOfInt(1), phase))
            /\ phase = DecOfInt(0) => illumination = DecOfInt(0)
            /\ phase = half => illumination = DecOfInt(100)
            /\ DecLeq(DecOfInt(0), illumination)
            /\ DecLeq(illumination, DecOfInt(100))

\* phase 0.5 itself, with illumination 100, next to phase 0
C21_Witness ==
    /\ probe.applied
    /\ probe.phase1 = ToDecimal(Frac(1, 2))
    /\ probe.illumination1 = DecOfInt(100)
    /\ probe.phase2 = DecOfInt(0)
    /\ probe.illumination2 = DecOfInt(0)

\* C22: the moon lux is 0.001 + (0.27 - 0.001) * illumination / 100: 0.001
\* at zero illumination, 0.27 at full illumination, increasing with the
\* illumination, and always within [0.001, 0.271].
C22_MoonLuxLinear ==
    probe.applied =>
        LET i1 == probe.illumination1
            i2 == probe.illumination2
            l1 == probe.lux1
            l2 == probe.lux2
        IN  /\ l1 = DecAdd(ToDecimal(Frac(1, 1000)),
                           DecMul(ToDecimal(Frac(269, 1000)), DecDiv(i1, DecOfInt(100))))
            /\ i1 = DecOfInt(0) => l1 = ToDecimal(Frac(1, 1000))
            /\ i1 = DecOfInt(100) => l1 = ToDecimal(Frac(27, 100))
            /\ DecLt(i1, i2) => DecLt(l1, l2)
            /\ DecLeq(ToDecimal(Frac(1, 1000)), l1)
            /\ DecLeq(l1, ToDecimal(Frac(271, 1000)))

\* a new moon against a full moon: 0.001 lux below 0.27 lux
C22_Witness ==
    /\ probe.applied
    /\ probe.illumination1 = DecOfInt(0)
    /\ probe.illumination2 = DecOfInt(100)
    /\ probe.lux1 = ToDecimal(Frac(1, 1000))
    /\ probe.lux2 = ToDecimal(Frac(27, 100))

\* x clamped to [5, 95], spelled out by cases
IsClampOf(y, x) ==
    /\ InRange(y, R(5), R(95))
    /\ InRange(x, R(5), R(95)) => y = x
    /\ Lt(x, R(5)) => y = R(5)
    /\ Gt(x, R(95)) => y = R(95)

\* C23: for every background lightness in [5, 95] the text lightness lies in
\* [85, 95] when the background lightness is below 50 and in [5, 15]
\* otherwise, so the two always differ by at least 35.
C23_TextContrastBand ==
    (probe.applied /\ InRange(probe.lightness, R(5), R(95))) =>
        /\ Lt(probe.lightness, R(50)) => InRange(probe.text, R(85), R(95))
        /\ Geq(probe.lightness, R(50)) => InRange(probe.text, R(5), R(15))
        /\ Geq(MathAbs(Sub(probe.text, probe.lightness)), R(35))

\* background lightness 50: dark text at 15, exactly 35 away
C23_Witness ==
    /\ probe.applied
    /\ probe.lightness = R(50)
    /\ probe.text = R(15)

\* C24: for every darkness in [0, 100] the background lightness is 100 -
\* darkness clamped to [5, 95], the darker gradient lightness is that
\* lightness - 10 clamped to [5, 95], and the darker one is never above the
\* background lightness.
C24_LightnessClamped ==
    (probe.applied /\ InRange(probe.dark, R(0), R(100))) =>
        /\ IsClampOf(probe.lightness, Sub(R(100), probe.dark))
        /\ IsClampOf(probe.lightnessDarker, Sub(probe.lightness, R(10)))
        /\ Leq(probe.lightnessDarker, probe.lightness)

\* darkness 100: lightness 5, and the darker variant held at 5 as well
C24_Witness ==
    /\ probe.applied
    /\ probe.dark = R(100)
    /\ probe.lightness = R(5)
    /\ probe.lightnessDarker = R(5)

\* the whole seconds of a non-negative duration in minutes
WholeSeconds(minutes) == MathFloor(Mul(minutes, R(60)))

\* C25: formatDuration returns "--" for every negative input; a non-negative
\* input is rendered from its whole seconds as "Xh Ym Zs" (125 minutes gives
\* "2h 5m 0s"), without the hours part when the hours are 0 and also without
\* the minutes part when hours and minutes are both 0.
C25_FormatDuration ==
    probe.applied =>
        LET total == WholeSeconds(probe.minutes)
            h == IntToString(total \div 3600) \o "h "
            m == IntToString((total \div 60) % 60) \o "m "
            sec == IntToString(total % 60) \o "s"
        IN  /\ Lt(probe.minutes, R(0)) => probe.text = "--"
            /\ (Geq(probe.minutes, R(0)) /\ total >= 3600) => probe.text = h \o m \o sec
            /\ (Geq(probe.minutes, R(0)) /\ total < 3600 /\ total >= 60) => probe.text = m \o sec
            /\ (Geq(probe.minutes, R(0)) /\ total < 60) => probe.text = sec
            /\ probe.minutes = R(125) => probe.text = "2h 5m 0s"

\* C26: with the darkness held constant at a value of the transition zone
\* between the thresholds 42 and 58, an evaluation never takes the
\* text-contrast accumulator from below 50 to 50 or above, or back.
C26_ContrastSideKept ==
    [][ (/\ probe.dark' = probe.dark
         /\ Gt(probe.dark, R(42)) /\ Lt(probe.dark, R(58))
         /\ probe.evaluations' = probe.evaluations + 1)
        => (Lt(probe.textContrast, R(50)) <=> Lt(probe.textContrast', R(50))) ]_vars

\* C27: a ticker callback writes currentMinutes only when override mode is off
\* and no drag is in progress, in every interleaving of drag start, drag end,
\* reset, watcher runs and interval firings, also when the interval fires
\* after the mode has changed and before the watcher has cleared it.
C27_TickerRespectsOverride ==
    [][ probe.ticks' # probe.ticks => (~isOverrideMode /\ ~isDragging) ]_vars

\* override mode on, the watcher has not run yet and the interval is live
C27_Witness ==
    /\ isOverrideMode
    /\ probe.timers = 1
    /\ probe.seen = <<FALSE, FALSE>>
    /\ probe.ticks = 1

\* C28: override mode is entered when a drag starts, stays on when the drag
\* ends, and is switched off only by reset, which sets currentMinutes to the
\* wall-clock time; the sundial emits reset from a centre-dot click only
\* while override mode is on.
C28_OverrideUntilReset ==
    /\ [][ /\ (~isDragging /\ isDragging') => isOverrideMode'
           /\ (isDragging /\ ~isDragging') => (isOverrideMode' = isOverrideMode)
           /\ (isOverrideMode /\ ~isOverrideMode') =>
                  (handleCenterClick /\ currentMinutes' \in Times) ]_vars
    /\ [](ENABLED handleCenterClick => isOverrideMode)

\* a drag has ended, the watcher has seen it, and override mode is still on
C28_Witness ==
    /\ isOverrideMode
    /\ ~isDragging
    /\ probe.seen = <<TRUE, FALSE>>

\* neither override mode nor a drag: the display is to follow real time
FollowsRealTime == ~isOverrideMode /\ ~isDragging

\* C29: after a reset with no drag in progress the ticker runs again and its
\* next tick sets currentMinutes from the wall clock, unless the user drags
\* again first; and at no point is more than one ticker interval live.
C29_TickerResumesAfterReset ==
    /\ [](probe.timers <= 1)
    /\ FollowsRealTime ~> (probe.realTimeInterval \/ ~FollowsRealTime)
    /\ \A b \in {0, 1} :
           (FollowsRealTime /\ probe.ticks = b) ~> (probe.ticks # b \/ ~FollowsRealTime)

\* just after a reset: override mode is off again, no drag, and the watcher,
\* which last ran during override mode, has not restarted the interval yet
C29_Witness ==
    /\ FollowsRealTime
    /\ probe.seen = <<TRUE, FALSE>>
    /\ ~probe.realTimeInterval
    /\ probe.timers = 0

\* the wait in (0, 1440] for a time of day e, seen from currentMinutes
WaitFor(e) ==
    LET m == Mod(Add(Sub(e, currentMinutes), R(1440)), R(1440))
    IN  IF m = R(0) THEN R(1440) ELSE m

\* C30: for every current time in [0, 1440) and every schedule with
\* boundaries in [0, 1440), findNextEvent returns the event, among the nine
\* boundaries and Midnight at 1440, with the smallest strictly positive wait,
\* in (0, 1440]: an event at the current time is 1440 minutes away, of two
\* events with the same wait the earlier entry wins, and without a schedule
\* the result is "--" with 0 minutes.
C30_NextEventIsSoonest ==
    probe.applied =>
        /\ sunInfo = Null => probe.next = [event |-> "--", minutesUntil |-> R(0)]
        /\ (sunInfo # Null /\ AllParsed(sunInfo)) =>
              LET events == EventsOf(sunInfo)
                  waits == [j \in 1..Len(events) |-> WaitFor(events[j].minutes)]
                  next == probe.next
              IN  /\ Gt(next.minutesUntil, R(0)) /\ Leq(next.minutesUntil, R(1440))
                  /\ \E i \in 1..Len(events) :
                         /\ events[i].name = next.event
                         /\ waits[i] = next.minutesUntil
                         /\ \A j \in 1..Len(events) : Geq(waits[j], waits[i])
                         /\ \A j \in 1..(i - 1) : Gt(waits[j], waits[i])
                  /\ \A j \in 1..Len(events) :
                         events[j].minutes = currentMinutes => waits[j] = R(1440)

\* 17:30 on a day whose sunset and civil twilight end are both at 18:00:
\* the earlier entry, Sunset, is returned, 30 minutes away
C30_Witness ==
    /\ probe.applied
    /\ sunInfo # Null
    /\ AllParsed(sunInfo)
    /\ sunInfo.results.civil_twilight_end = HM(1080)
    /\ sunInfo.results.sunset = HM(1080)
    /\ currentMinutes = R(1050)
    /\ probe.next = [event |-> "Sunset", minutesUntil |-> R(30)]

====
